---- MODULE Spec2Model ----
(***************************************************************************)
(* A model of erbium's DHCP packet codec                                   *)
(* (crates/erbium-core/src/dhcp/dhcppkt.rs): the TLV option parser, the    *)
(* fixed-header parser and serialiser, the option container and the typed  *)
(* value encode/decode functions.                                          *)
(*                                                                         *)
(* Bytes are naturals 0..255, byte strings are sequences of bytes, an      *)
(* Ipv4Addr is the sequence of its four octets, and a HashMap<DhcpOption,  *)
(* Vec<u8>> is a function from a set of option codes to byte strings.      *)
(* A u32 is the pair <<high 16 bits, low 16 bits>> (the checker's integers *)
(* have 32 bits with a sign); u8, u16 and i32 values are integers.         *)
(***************************************************************************)
EXTENDS Integers, Sequences, FiniteSets, TLC

VARIABLES
    stream,   \* option bytes received so far (input of parse_options)
    ores,     \* the result of parse_options on stream, once called
    dhcp,     \* the Dhcp packet the sender holds
    wire,     \* the bytes in flight from the sender to the receiver
    res,      \* the result of parse on wire, once called
    obs,      \* what the last accessor called on the parsed packet returned
    again,    \* what parse returned for bytes made from the ones parsed: the
              \* parsed packet serialised again, or wire with bytes after it
    phase,    \* where the exchange is: idle, build, sent, corrupted, cut, parsed
    typed,    \* a typed value (DhcpOptionTypeValue)
    vbytes,   \* the bytes typed was encoded to
    dec,      \* what decoding vbytes returned
    vphase,   \* where the value is: idle, chosen, encoded, decoded, or
              \* received, decoded_bytes for bytes that came from the outside
    tag,      \* the type tag (DhcpOptionType) decode was last called with
    opts,     \* an option container (DhcpOptions) under its caller's operations
    last,     \* per option code, the caller's most recent operation on opts
    call,     \* the call that made opts or read it, if one did: its operation,
              \* its arguments and the container it was given
    lookup,   \* the last registry lookup: what was called, with which option
              \* or name, and what it returned
    run,      \* a call of parse_options taken one pass of its loop at a time
    kept,     \* a typed value stored in a container and read back as its type
    old       \* the older-generation codec: its input, its parse result and
              \* what get_address_request returned on the parsed options

optVars == <<stream, ores>>
pktVars == <<dhcp, wire, res, obs, again, phase>>
valVars == <<typed, vbytes, dec, vphase, tag>>
contVars == <<opts, last, call>>
regVars == <<lookup>>
loopVars == <<run>>
typedVars == <<kept>>
oldVars == <<old>>
vars ==
    <<stream, ores, dhcp, wire, res, obs, again, phase, typed, vbytes, dec, vphase, tag,
      opts, last, call, lookup, run, kept, old>>

(***************************************************************************)
(* Bounds of the model.                                                    *)
(***************************************************************************)
MaxStream == 8
MaxOpts == 2
MaxLoop == 4

\* The byte values option streams are made of: pad, two option codes (which
\* also serve as length bytes and payload bytes) and the end marker.
StreamBytes == {0, 1, 2, 255}

(***************************************************************************)
(* Result<T, ParseError>                                                   *)
(***************************************************************************)
UnexpectedEndOfInput == "UnexpectedEndOfInput"
WrongMagic == "WrongMagic"
InvalidPacket == "InvalidPacket"

\* pos is the cursor of the Buffer when the function returned.
Ok(v, buf) == [tag |-> "Ok", val |-> v, pos |-> buf.pos]
Err(e, buf) == [tag |-> "Err", val |-> e, pos |-> buf.pos]
NoResult == [tag |-> "None", val |-> "", pos |-> 0]

(***************************************************************************)
(* pktparser::Buffer: a sequential cursor over a byte slice.  Every        *)
(* primitive returns None (ok = FALSE) on insufficient input, and never    *)
(* partial data.                                                           *)
(***************************************************************************)
Buffer_new(data) == [data |-> data, pos |-> 0]

Remaining(buf) == Len(buf.data) - buf.pos

get_bytes(buf, n) ==
    IF n <= Remaining(buf)
    THEN [ok |-> TRUE,
          val |-> SubSeq(buf.data, buf.pos + 1, buf.pos + n),
          buf |-> [buf EXCEPT !.pos = @ + n]]
    ELSE [ok |-> FALSE, val |-> <<>>, buf |-> buf]

get_vec(buf, n) == get_bytes(buf, n)

get_u8(buf) ==
    LET r == get_bytes(buf, 1)
    IN  [ok |-> r.ok, val |-> IF r.ok THEN r.val[1] ELSE 0, buf |-> r.buf]

get_be16(buf) ==
    LET r == get_bytes(buf, 2)
    IN  [ok |-> r.ok,
         val |-> IF r.ok THEN r.val[1] * 256 + r.val[2] ELSE 0,
         buf |-> r.buf]

get_be32(buf) ==
    LET r == get_bytes(buf, 4)
    IN  [ok |-> r.ok,
         val |-> IF r.ok
                 THEN <<r.val[1] * 256 + r.val[2], r.val[3] * 256 + r.val[4]>>
                 ELSE <<0, 0>>,
         buf |-> r.buf]

get_ipv4(buf) == get_bytes(buf, 4)

(***************************************************************************)
(* parse_options                                                           *)
(***************************************************************************)
OPTION_PAD == 0
OPTION_END == 255

EmptyMap == <<>>

\* The entry update as a plain insert: the earlier payload of x is lost.
EntryExtend_insert(raw, x, bytes) == (x :> bytes) @@ raw

\* raw_options.entry(DhcpOption(x)).or_insert_with(Vec::new).extend(bytes)
EntryExtend(raw, x, bytes) ==
    IF x \in DOMAIN raw
    THEN [raw EXCEPT ![x] = @ \o bytes]
    ELSE raw @@ (x :> bytes)

\* The loop with the end of the input taken for the end marker.
RECURSIVE parse_options_loop_eof_ends(_, _)
parse_options_loop_eof_ends(buf, raw_options) ==
    LET c == get_u8(buf)
    IN  IF ~c.ok THEN Ok([other |-> raw_options], c.buf)
        ELSE IF c.val = OPTION_PAD THEN parse_options_loop_eof_ends(c.buf, raw_options)
        ELSE IF c.val = OPTION_END THEN Ok([other |-> raw_options], c.buf)
        ELSE LET l == get_u8(c.buf)
             IN  IF ~l.ok THEN Err(UnexpectedEndOfInput, l.buf)
                 ELSE LET p == get_bytes(l.buf, l.val)
                      IN  IF ~p.ok THEN Err(UnexpectedEndOfInput, p.buf)
                          ELSE parse_options_loop_eof_ends(
                                   p.buf, EntryExtend(raw_options, c.val, p.val))

\* The loop that takes a zero byte for an option code like any other.
RECURSIVE parse_options_loop_pad_as_code(_, _)
parse_options_loop_pad_as_code(buf, raw_options) ==
    LET c == get_u8(buf)
    IN  IF ~c.ok THEN Err(UnexpectedEndOfInput, c.buf)
        ELSE IF c.val = OPTION_END THEN Ok([other |-> raw_options], c.buf)
        ELSE LET l == get_u8(c.buf)
             IN  IF ~l.ok THEN Err(UnexpectedEndOfInput, l.buf)
                 ELSE LET p == get_bytes(l.buf, l.val)
                      IN  IF ~p.ok THEN Err(UnexpectedEndOfInput, p.buf)
                          ELSE parse_options_loop_pad_as_code(
                                   p.buf, EntryExtend(raw_options, c.val, p.val))

\* The loop that takes an end marker for the end only when no byte follows
\* it, and refuses the input otherwise.
RECURSIVE parse_options_loop_end_is_last(_, _)
parse_options_loop_end_is_last(buf, raw_options) ==
    LET c == get_u8(buf)
    IN  IF ~c.ok THEN Err(UnexpectedEndOfInput, c.buf)
        ELSE IF c.val = OPTION_PAD
        THEN parse_options_loop_end_is_last(c.buf, raw_options)
        ELSE IF c.val = OPTION_END
        THEN IF Remaining(c.buf) = 0 THEN Ok([other |-> raw_options], c.buf)
             ELSE Err(InvalidPacket, c.buf)
        ELSE LET l == get_u8(c.buf)
             IN  IF ~l.ok THEN Err(UnexpectedEndOfInput, l.buf)
                 ELSE LET p == get_bytes(l.buf, l.val)
                      IN  IF ~p.ok THEN Err(UnexpectedEndOfInput, p.buf)
                          ELSE parse_options_loop_end_is_last(
                                   p.buf, EntryExtend(raw_options, c.val, p.val))

RECURSIVE parse_options_loop(_, _)
parse_options_loop(buf, raw_options) ==
    LET c == get_u8(buf)
    IN  IF ~c.ok THEN Err(UnexpectedEndOfInput, c.buf)
        ELSE IF c.val = OPTION_PAD THEN parse_options_loop(c.buf, raw_options)
        ELSE IF c.val = OPTION_END THEN Ok([other |-> raw_options], c.buf)
        ELSE LET l == get_u8(c.buf)
             IN  IF ~l.ok THEN Err(UnexpectedEndOfInput, l.buf)
                 ELSE LET p == get_bytes(l.buf, l.val)
                      IN  IF ~p.ok THEN Err(UnexpectedEndOfInput, p.buf)
                          ELSE parse_options_loop(
                                   p.buf, EntryExtend(raw_options, c.val, p.val))

parse_options(buf) == parse_options_loop(buf, EmptyMap)

\* One pass through the body of the loop, with a pad byte looked at but left
\* in the buffer.
loop_body_pad_left(buf, raw_options) ==
    LET c == get_u8(buf)
        here(ctl, b, raw, r) ==
            [ctl |-> ctl, buf |-> b, raw_options |-> raw, res |-> r]
    IN  IF ~c.ok
        THEN here("return", c.buf, raw_options, Err(UnexpectedEndOfInput, c.buf))
        ELSE IF c.val = OPTION_PAD THEN here("continue", buf, raw_options, NoResult)
        ELSE IF c.val = OPTION_END THEN here("break", c.buf, raw_options, NoResult)
        ELSE LET l == get_u8(c.buf)
             IN  IF ~l.ok
                 THEN here("return", l.buf, raw_options,
                           Err(UnexpectedEndOfInput, l.buf))
                 ELSE LET p == get_bytes(l.buf, l.val)
                      IN  IF ~p.ok
                          THEN here("return", p.buf, raw_options,
                                    Err(UnexpectedEndOfInput, p.buf))
                          ELSE here("continue", p.buf,
                                    EntryExtend(raw_options, c.val, p.val), NoResult)

\* One pass through the body of the loop of parse_options: how it is left
\* (continue with the next pass, break out of the loop, or return from the
\* function with res), and buf and raw_options after it.
loop_body(buf, raw_options) ==
    LET c == get_u8(buf)
        here(ctl, b, raw, r) ==
            [ctl |-> ctl, buf |-> b, raw_options |-> raw, res |-> r]
    IN  IF ~c.ok
        THEN here("return", c.buf, raw_options, Err(UnexpectedEndOfInput, c.buf))
        ELSE IF c.val = OPTION_PAD THEN here("continue", c.buf, raw_options, NoResult)
        ELSE IF c.val = OPTION_END THEN here("break", c.buf, raw_options, NoResult)
        ELSE LET l == get_u8(c.buf)
             IN  IF ~l.ok
                 THEN here("return", l.buf, raw_options,
                           Err(UnexpectedEndOfInput, l.buf))
                 ELSE LET p == get_bytes(l.buf, l.val)
                      IN  IF ~p.ok
                          THEN here("return", p.buf, raw_options,
                                    Err(UnexpectedEndOfInput, p.buf))
                          ELSE here("continue", p.buf,
                                    EntryExtend(raw_options, c.val, p.val), NoResult)

(***************************************************************************)
(* Option<T>: None is the empty sequence, Some(x) the one-element one.     *)
(***************************************************************************)
None == <<>>
Some(x) == <<x>>

(***************************************************************************)
(* The fixed header                                                        *)
(***************************************************************************)
DHCP_MAGIC == 1669485411     \* 0x6382_5363

\* The u32 of a number below 2^31.
U32Of(n) == <<n \div 65536, n % 65536>>

\* The cut made after the first zero byte instead of before it.
null_terminated_zero_kept(v) ==
    IF \E i \in 1..Len(v) : v[i] = 0
    THEN LET i == CHOOSE i \in 1..Len(v) :
                      v[i] = 0 /\ \A j \in 1..(i - 1) : v[j] # 0
         IN  SubSeq(v, 1, i)
    ELSE v

\* for i in 0..v.len() { if v[i] == 0 { v.truncate(i); break; } }: v is cut
\* at its first zero byte, if it has one.
null_terminated(v) ==
    IF \E i \in 1..Len(v) : v[i] = 0
    THEN LET i == CHOOSE i \in 1..Len(v) :
                      v[i] = 0 /\ \A j \in 1..(i - 1) : v[j] # 0
         IN  SubSeq(v, 1, i - 1)
    ELSE v

\* The hlen check off by one, and the hlen check that rejects hlen 0 too.
HlenTooLong_or_equal(hlen, chaddr) == hlen >= Len(chaddr)
HlenTooLong_or_zero(hlen, chaddr) == hlen > Len(chaddr) \/ hlen = 0

\* The magic check on the high half of the word only.
MagicMismatch_high_half(magic) == magic[1] # U32Of(DHCP_MAGIC)[1]

\* if hlen as usize > chaddr.len() { return Err(ParseError::InvalidPacket); }
HlenTooLong(hlen, chaddr) == hlen > Len(chaddr)

\* if magic != 0x6382_5363 { return Err(ParseError::WrongMagic); }
MagicMismatch(magic) == magic # U32Of(DHCP_MAGIC)

parse(pkt) ==
    LET b0 == Buffer_new(pkt)
        op == get_u8(b0)
    IN  IF ~op.ok THEN Err(UnexpectedEndOfInput, op.buf) ELSE
    LET htype == get_u8(op.buf)
    IN  IF ~htype.ok THEN Err(UnexpectedEndOfInput, htype.buf) ELSE
    LET hlen == get_u8(htype.buf)
    IN  IF ~hlen.ok THEN Err(UnexpectedEndOfInput, hlen.buf) ELSE
    LET hops == get_u8(hlen.buf)
    IN  IF ~hops.ok THEN Err(UnexpectedEndOfInput, hops.buf) ELSE
    LET xid == get_be32(hops.buf)
    IN  IF ~xid.ok THEN Err(UnexpectedEndOfInput, xid.buf) ELSE
    LET secs == get_be16(xid.buf)
    IN  IF ~secs.ok THEN Err(UnexpectedEndOfInput, secs.buf) ELSE
    LET flags == get_be16(secs.buf)
    IN  IF ~flags.ok THEN Err(UnexpectedEndOfInput, flags.buf) ELSE
    LET ciaddr == get_ipv4(flags.buf)
    IN  IF ~ciaddr.ok THEN Err(UnexpectedEndOfInput, ciaddr.buf) ELSE
    LET yiaddr == get_ipv4(ciaddr.buf)
    IN  IF ~yiaddr.ok THEN Err(UnexpectedEndOfInput, yiaddr.buf) ELSE
    LET siaddr == get_ipv4(yiaddr.buf)
    IN  IF ~siaddr.ok THEN Err(UnexpectedEndOfInput, siaddr.buf) ELSE
    LET giaddr == get_ipv4(siaddr.buf)
    IN  IF ~giaddr.ok THEN Err(UnexpectedEndOfInput, giaddr.buf) ELSE
    LET chaddr == get_vec(giaddr.buf, 16)
    IN  IF ~chaddr.ok THEN Err(UnexpectedEndOfInput, chaddr.buf) ELSE
        IF HlenTooLong(hlen.val, chaddr.val) THEN Err(InvalidPacket, chaddr.buf) ELSE
    LET sname == get_vec(chaddr.buf, 64)
    IN  IF ~sname.ok THEN Err(UnexpectedEndOfInput, sname.buf) ELSE
    LET file == get_vec(sname.buf, 128)
    IN  IF ~file.ok THEN Err(UnexpectedEndOfInput, file.buf) ELSE
    LET magic == get_be32(file.buf)
    IN  IF ~magic.ok THEN Err(UnexpectedEndOfInput, magic.buf) ELSE
        IF MagicMismatch(magic.val) THEN Err(WrongMagic, magic.buf) ELSE
    LET options == parse_options(magic.buf)
    IN  IF options.tag = "Err" THEN options ELSE
        [tag |-> "Ok",
         val |-> [op |-> op.val,
                  htype |-> htype.val,
                  hlen |-> hlen.val,
                  hops |-> hops.val,
                  xid |-> xid.val,
                  secs |-> secs.val,
                  flags |-> flags.val,
                  ciaddr |-> ciaddr.val,
                  yiaddr |-> yiaddr.val,
                  siaddr |-> siaddr.val,
                  giaddr |-> giaddr.val,
                  chaddr |-> SubSeq(chaddr.val, 1, hlen.val),
                  sname |-> null_terminated(sname.val),
                  file |-> null_terminated(file.val),
                  options |-> options.val],
         pos |-> options.pos]

(***************************************************************************)
(* trait Serialise                                                         *)
(***************************************************************************)
\* to_be_bytes of a u16, a u32 and an i32 (the bytes of its two's complement)
u16_to_be_bytes(x) == <<(x \div 256) % 256, x % 256>>
u32_to_be_bytes(x) == u16_to_be_bytes(x[1]) \o u16_to_be_bytes(x[2])
i32_to_be_bytes(x) == u32_to_be_bytes(<<(x \div 65536) % 65536, x % 65536>>)

u8_serialise(x) == <<x>>

\* The u16 written low byte first.
u16_serialise_low_first(x) == <<x % 256, (x \div 256) % 256>>

\* for b in self.to_be_bytes().iter() { b.serialise(v); }
u16_serialise(x) == u16_to_be_bytes(x)

u32_serialise(x) == u32_to_be_bytes(x)

i32_serialise(x) == i32_to_be_bytes(x)

Ipv4Addr_serialise(a) == a

\* bytes.len() as u8
AsU8(n) == n % 256

serialise_option(option, bytes) ==
    u8_serialise(option) \o u8_serialise(AsU8(Len(bytes))) \o bytes

\* The orders in which the HashMap may be iterated: every enumeration of
\* its keys.
IterOrders(map) ==
    {o \in [1..Cardinality(DOMAIN map) -> DOMAIN map] :
        \A i, j \in DOMAIN o : i # j => o[i] # o[j]}

RECURSIVE serialise_entries(_, _, _)
serialise_entries(other, order, i) ==
    IF i > Len(order) THEN <<>>
    ELSE serialise_option(order[i], other[order[i]])
             \o serialise_entries(other, order, i + 1)

DhcpOptions_serialise(self, order) ==
    serialise_entries(self.other, order, 1) \o u8_serialise(OPTION_END)

Zeros(n) == [i \in 1..n |-> 0]

\* The fixed field without its zero fill.
serialise_fixed_unpadded(out, l) ==
    IF Len(out) >= l THEN SubSeq(out, 1, l) ELSE out

\* bytes.extend_from_slice(out); bytes.resize_with(l, Default::default)
serialise_fixed(out, l) ==
    IF Len(out) >= l THEN SubSeq(out, 1, l) ELSE out \o Zeros(l - Len(out))

Dhcp_serialise(self, order) ==
    u8_serialise(self.op)
        \o u8_serialise(self.htype)
        \o u8_serialise(self.hlen)
        \o u8_serialise(self.hops)
        \o u32_serialise(self.xid)
        \o u16_serialise(self.secs)
        \o u16_serialise(self.flags)
        \o Ipv4Addr_serialise(self.ciaddr)
        \o Ipv4Addr_serialise(self.yiaddr)
        \o Ipv4Addr_serialise(self.siaddr)
        \o Ipv4Addr_serialise(self.giaddr)
        \o serialise_fixed(self.chaddr, 16)
        \o serialise_fixed(self.sname, 64)
        \o serialise_fixed(self.file, 128)
        \o u32_serialise(U32Of(DHCP_MAGIC))
        \o DhcpOptions_serialise(self.options, order)

(***************************************************************************)
(* trait DhcpParse and the option container DhcpOptions                    *)
(***************************************************************************)
OPTION_ADDRESSREQUEST == 50
OPTION_MSGTYPE == 53
OPTION_SERVERID == 54
OPTION_CLIENTID == 61

\* The address decode that fills a short payload with zeros.
Ipv4Addr_parse_into_zero_filled(v) ==
    IF Len(v) > 4 \/ Len(v) = 0 THEN None
    ELSE Some([i \in 1..4 |-> IF i <= Len(v) THEN v[i] ELSE 0])

Ipv4Addr_parse_into(v) ==
    IF Len(v) # 4 THEN None ELSE Some(<<v[1], v[2], v[3], v[4]>>)

U8Str_parse_into(v) == Some(v)

get_raw_option(self, option) ==
    IF option \in DOMAIN self.other THEN Some(self.other[option]) ELSE None

\* self.get_raw_option(option).and_then(|x| T::parse_into(x))
get_option(parse_into(_), self, option) ==
    LET raw == get_raw_option(self, option)
    IN  IF raw = None THEN None ELSE parse_into(raw[1])

get_serverid(self) == get_option(Ipv4Addr_parse_into, self, OPTION_SERVERID)

get_clientid(self) == get_option(U8Str_parse_into, self, OPTION_CLIENTID)

get_address_request(self) ==
    get_option(Ipv4Addr_parse_into, self, OPTION_ADDRESSREQUEST)

\* The raw setter extending the payload that is there.
set_raw_option_extending(self, option, value) ==
    [other |-> IF option \in DOMAIN self.other
               THEN [self.other EXCEPT ![option] = @ \o value]
               ELSE (option :> value) @@ self.other]

set_raw_option(self, option, value) ==
    [other |-> (option :> value) @@ self.other]

\* remove_option that empties the container.
remove_option_clearing(self, option) == [other |-> EmptyMap]

remove_option(self, option) ==
    [other |-> [o \in DOMAIN self.other \ {option} |-> self.other[o]]]

\* The client id that falls back to chaddr for an empty option payload too.
get_client_id_unless_empty(self) ==
    LET id == get_clientid(self.options)
    IN  IF id = None \/ id = Some(<<>>) THEN self.chaddr ELSE id[1]

\* self.options.get_clientid().unwrap_or_else(|| self.chaddr.clone())
get_client_id(self) ==
    LET id == get_clientid(self.options)
    IN  IF id = None THEN self.chaddr ELSE id[1]

(***************************************************************************)
(* Typed values: DhcpOptionTypeValue is [variant, x]; a String is the      *)
(* byte string of its UTF-8 encoding; a Route is [prefix |-> [addr,        *)
(* prefixlen], nexthop].                                                   *)
(***************************************************************************)
TypedValue(variant, x) == [variant |-> variant, x |-> x]

\* Option::map(DhcpOptionTypeValue::Variant)
MapVariant(variant, o) == IF o = None THEN None ELSE Some(TypedValue(variant, o[1]))

\* acc << 8 on a u16: the bits shifted out are dropped.
Shl8_16(acc) == (acc * 256) % 65536

\* acc << 8 on the 32 bits of a u32 or an i32.
Shl8_32(acc) == <<(acc[1] * 256 + acc[2] \div 256) % 65536, (acc[2] % 256) * 256>>

\* acc + (v as Self) on 32 bits.  The low byte of acc is zero after the
\* shift, so the sum never carries, for u32 and for i32 alike.
Add8_32(acc, b) == <<acc[1] + (acc[2] + b) \div 65536, (acc[2] + b) % 65536>>

I32_MIN == -2147483647 - 1
I32_MAX == -(I32_MIN + 1)

\* The i32 with the two's complement bits u.
ToI32(u) == (IF u[1] >= 32768 THEN u[1] - 65536 ELSE u[1]) * 65536 + u[2]

RECURSIVE FoldBE16(_, _, _)
\* v.iter().fold(0_u16, |acc, &v| (acc << 8) + (v as Self))
FoldBE16(v, i, acc) ==
    IF i > Len(v) THEN acc ELSE FoldBE16(v, i + 1, Shl8_16(acc) + v[i])

\* The 32-bit fold that stops after the first four bytes.
RECURSIVE FoldBE32_leading(_, _, _)
FoldBE32_leading(v, i, acc) ==
    IF i > Len(v) \/ i > 4 THEN acc
    ELSE FoldBE32_leading(v, i + 1, Add8_32(Shl8_32(acc), v[i]))

RECURSIVE FoldBE32(_, _, _)
\* v.iter().fold(0, |acc, &v| (acc << 8) + (v as Self)) on 32 bits
FoldBE32(v, i, acc) ==
    IF i > Len(v) THEN acc ELSE FoldBE32(v, i + 1, Add8_32(Shl8_32(acc), v[i]))

u32_parse_into(v) == Some(FoldBE32(v, 1, <<0, 0>>))

\* A u64 is its four 16-bit parts, the highest first.  acc << 8 on a u64:
Shl8_64(acc) ==
    <<(acc[1] * 256 + acc[2] \div 256) % 65536, (acc[2] * 256 + acc[3] \div 256) % 65536,
      (acc[3] * 256 + acc[4] \div 256) % 65536, (acc[4] % 256) * 256>>

\* acc + (v as u64), the carry taken through the parts, modulo 2^64.
Add8_64(acc, b) ==
    LET p4 == acc[4] + b
        p3 == acc[3] + p4 \div 65536
        p2 == acc[2] + p3 \div 65536
        p1 == acc[1] + p2 \div 65536
    IN  <<p1 % 65536, p2 % 65536, p3 % 65536, p4 % 65536>>

RECURSIVE FoldBE64(_, _, _)
\* v.iter().fold(0_u64, |acc, &v| (acc << 8) + (v as Self))
FoldBE64(v, i, acc) ==
    IF i > Len(v) THEN acc ELSE FoldBE64(v, i + 1, Add8_64(Shl8_64(acc), v[i]))

u64_parse_into(v) == Some(FoldBE64(v, 1, <<0, 0, 0, 0>>))

\* The sum (acc << 8) + (v as Self) leaves the range of the type at some
\* step of the fold over v from index i: the arithmetic overflow that
\* panics in a build with overflow checks.
RECURSIVE FoldOverflows16(_, _, _)
FoldOverflows16(v, i, acc) ==
    /\ i <= Len(v)
    /\ \/ Shl8_16(acc) + v[i] > 65535
       \/ FoldOverflows16(v, i + 1, (Shl8_16(acc) + v[i]) % 65536)

RECURSIVE FoldOverflows32(_, _, _)
FoldOverflows32(v, i, acc) ==
    /\ i <= Len(v)
    /\ \/ (Shl8_32(acc)[1] = 65535 /\ Shl8_32(acc)[2] + v[i] > 65535)
       \/ FoldOverflows32(v, i + 1, Add8_32(Shl8_32(acc), v[i]))

RECURSIVE FoldOverflowsI32(_, _, _)
FoldOverflowsI32(v, i, acc) ==
    /\ i <= Len(v)
    /\ \/ ToI32(Shl8_32(acc)) > I32_MAX - v[i]
       \/ FoldOverflowsI32(v, i + 1, Add8_32(Shl8_32(acc), v[i]))

RECURSIVE FoldOverflows64(_, _, _)
FoldOverflows64(v, i, acc) ==
    /\ i <= Len(v)
    /\ \/ (/\ \A k \in 1..3 : Shl8_64(acc)[k] = 65535
           /\ Shl8_64(acc)[4] + v[i] > 65535)
       \/ FoldOverflows64(v, i + 1, Add8_64(Shl8_64(acc), v[i]))

\* The u16 decode that wants exactly two bytes.
u16_parse_into_two_bytes(v) ==
    IF Len(v) # 2 THEN None ELSE Some(FoldBE16(v, 1, 0))

u16_parse_into(v) == Some(FoldBE16(v, 1, 0))

i32_parse_into(v) == Some(ToI32(FoldBE32(v, 1, <<0, 0>>)))

u8_parse_into(v) == IF Len(v) # 1 THEN None ELSE Some(v[1])

\* The address-list loop that drops a last group that is cut short.
RECURSIVE IpList_parse_loop_tail_dropped(_, _, _)
IpList_parse_loop_tail_dropped(v, i, ret) ==
    IF i > Len(v) \/ i + 3 > Len(v) THEN Some(ret)
    ELSE IpList_parse_loop_tail_dropped(
             v, i + 4, Append(ret, <<v[i], v[i + 1], v[i + 2], v[i + 3]>>))

RECURSIVE IpList_parse_loop(_, _, _)
IpList_parse_loop(v, i, ret) ==
    IF i > Len(v) THEN Some(ret)
    ELSE IF i + 3 > Len(v) THEN None
    ELSE IpList_parse_loop(v, i + 4, Append(ret, <<v[i], v[i + 1], v[i + 2], v[i + 3]>>))

IpList_parse_into(v) == IpList_parse_loop(v, 1, <<>>)

\* No bit of the address is set after its first prefixlen bits.
HostBitsZero(addr, prefixlen) ==
    \A k \in 1..4 :
        IF prefixlen >= 8 * k THEN TRUE
        ELSE IF prefixlen <= 8 * (k - 1) THEN addr[k] = 0
        ELSE addr[k] % (2 ^ (8 * k - prefixlen)) = 0

\* Ipv4Subnet::new clearing the address bits after the prefix instead of
\* refusing an address that has some set.
Ipv4Subnet_new_masking(addr, prefixlen) ==
    IF prefixlen <= 32
    THEN Some([addr |-> [k \in 1..4 |->
                            IF prefixlen >= 8 * k THEN addr[k]
                            ELSE IF prefixlen <= 8 * (k - 1) THEN 0
                            ELSE addr[k] - (addr[k] % (2 ^ (8 * k - prefixlen)))],
               prefixlen |-> prefixlen])
    ELSE None

\* erbium_net::Ipv4Subnet::new(addr, prefixlen): an error unless the prefix
\* is valid: at most 32 bits long, with no address bit set after it.
Ipv4Subnet_new(addr, prefixlen) ==
    IF prefixlen <= 32 /\ HostBitsZero(addr, prefixlen)
    THEN Some([addr |-> addr, prefixlen |-> prefixlen])
    ELSE None

\* parse_ip_from_iter at index i: four bytes, or None
parse_ip_from_iter(v, i) ==
    IF i + 3 > Len(v) THEN None ELSE Some(<<v[i], v[i + 1], v[i + 2], v[i + 3]>>)

\* The route loop that reads the next hop before the prefix address.
RECURSIVE Routes_parse_loop_nexthop_first(_, _, _)
Routes_parse_loop_nexthop_first(v, i, ret) ==
    IF i > Len(v) THEN Some(ret)
    ELSE LET prefixlen == v[i]
             nexthop == parse_ip_from_iter(v, i + 1)
         IN  IF nexthop = None THEN None
             ELSE LET ip == parse_ip_from_iter(v, i + 5)
                  IN  IF ip = None THEN None
                      ELSE LET prefix == Ipv4Subnet_new(ip[1], prefixlen)
                           IN  IF prefix = None THEN None
                               ELSE Routes_parse_loop_nexthop_first(v, i + 9,
                                        Append(ret, [prefix |-> prefix[1],
                                                     nexthop |-> nexthop[1]]))

RECURSIVE Routes_parse_loop(_, _, _)
Routes_parse_loop(v, i, ret) ==
    IF i > Len(v) THEN Some(ret)
    ELSE LET prefixlen == v[i]
             ip == parse_ip_from_iter(v, i + 1)
         IN  IF ip = None THEN None
             ELSE LET prefix == Ipv4Subnet_new(ip[1], prefixlen)
                  IN  IF prefix = None THEN None
                      ELSE LET nexthop == parse_ip_from_iter(v, i + 5)
                           IN  IF nexthop = None THEN None
                               ELSE Routes_parse_loop(v, i + 9,
                                        Append(ret, [prefix |-> prefix[1],
                                                     nexthop |-> nexthop[1]]))

Routes_parse_into(v) == Routes_parse_loop(v, 1, <<>>)

(***************************************************************************)
(* String::from_utf8_lossy: well-formed UTF-8 sequences are kept, every    *)
(* maximal ill-formed part is replaced by U+FFFD (EF BF BD).               *)
(***************************************************************************)
REPLACEMENT == <<239, 191, 189>>

IsCont(v, i, lo, hi) == i <= Len(v) /\ v[i] >= lo /\ v[i] <= hi

\* The range of the second byte after lead byte b.
SecondLo(b) == IF b = 224 THEN 160 ELSE IF b = 240 THEN 144 ELSE 128
SecondHi(b) == IF b = 237 THEN 159 ELSE IF b = 244 THEN 143 ELSE 191

\* The number of bytes of the sequence lead byte b starts, 0 for no lead byte.
Utf8Width(b) ==
    IF b < 128 THEN 1
    ELSE IF b >= 194 /\ b <= 223 THEN 2
    ELSE IF b >= 224 /\ b <= 239 THEN 3
    ELSE IF b >= 240 /\ b <= 244 THEN 4
    ELSE 0

\* How many bytes at i form a valid prefix of the sequence v[i] starts.
Utf8Good(v, i) ==
    LET w == Utf8Width(v[i])
    IN  IF w <= 1 THEN w
        ELSE IF ~IsCont(v, i + 1, SecondLo(v[i]), SecondHi(v[i])) THEN 1
        ELSE IF w = 2 THEN 2
        ELSE IF ~IsCont(v, i + 2, 128, 191) THEN 2
        ELSE IF w = 3 THEN 3
        ELSE IF ~IsCont(v, i + 3, 128, 191) THEN 3
        ELSE 4

RECURSIVE from_utf8_lossy_at(_, _)
from_utf8_lossy_at(v, i) ==
    IF i > Len(v) THEN <<>>
    ELSE LET w == Utf8Width(v[i])
             g == Utf8Good(v, i)
         IN  IF w > 0 /\ g = w
             THEN SubSeq(v, i, i + w - 1) \o from_utf8_lossy_at(v, i + w)
             ELSE REPLACEMENT \o from_utf8_lossy_at(v, i + (IF g = 0 THEN 1 ELSE g))

from_utf8_lossy(v) == from_utf8_lossy_at(v, 1)

String_parse_into(v) == Some(from_utf8_lossy(v))

(***************************************************************************)
(* Domain-name lists.  A name is the byte string of its text; DOT is '.'.  *)
(***************************************************************************)
DOT == 46

\* The positions of the dots of name d, and the first one after position j
\* (the position after the end of d when there is none).
Dots(d) == {i \in 1..Len(d) : d[i] = DOT}
NextDot(d, j) ==
    IF \E i \in Dots(d) : i > j
    THEN CHOOSE i \in Dots(d) : i > j /\ \A k \in Dots(d) : k > j => i <= k
    ELSE Len(d) + 1

\* d.split('.'): the labels of d, one more than it has dots.
RECURSIVE split_from(_, _)
split_from(d, j) ==
    <<SubSeq(d, j + 1, NextDot(d, j) - 1)>>
        \o (IF NextDot(d, j) > Len(d) THEN <<>> ELSE split_from(d, NextDot(d, j)))

split(d) == split_from(d, 0)

\* d.join("."): the labels with a dot between them
RECURSIVE join(_, _)
join(labels, i) ==
    IF i > Len(labels) THEN <<>>
    ELSE IF i = Len(labels) THEN labels[i]
    ELSE labels[i] \o <<DOT>> \o join(labels, i + 1)

\* pktparser::Buffer::get_domains: the label lists of the names in v, each
\* label a length byte and that many bytes, each name closed by a zero
\* length; no value when the bytes end inside a label or inside a name.
RECURSIVE get_domains_loop(_, _, _, _)
get_domains_loop(v, i, names, labels) ==
    IF i > Len(v) THEN (IF labels = <<>> THEN Some(names) ELSE None)
    ELSE IF v[i] = 0 THEN get_domains_loop(v, i + 1, Append(names, labels), <<>>)
    ELSE IF i + v[i] > Len(v) THEN None
    ELSE get_domains_loop(v, i + 1 + v[i], names,
                          Append(labels, SubSeq(v, i + 1, i + v[i])))

get_domains(v) == get_domains_loop(v, 1, <<>>, <<>>)

\* Some(buf.get_domains()?.iter().map(|d| d.join(".")).collect())
VecString_parse_into(v) ==
    LET domains == get_domains(v)
    IN  IF domains = None THEN None
        ELSE Some([k \in 1..Len(domains[1]) |-> join(domains[1][k], 1)])

\* for label in domains { o.push(label.len() as u8); o.extend(label.as_bytes()); }
RECURSIVE labels_bytes(_, _)
labels_bytes(labels, i) ==
    IF i > Len(labels) THEN <<>>
    ELSE <<Len(labels[i]) % 256>> \o labels[i] \o labels_bytes(labels, i + 1)

\* for domains in l.iter().map(|d| d.split('.')) { ..labels..; o.push(0_u8) }
RECURSIVE DomainList_bytes(_, _)
DomainList_bytes(l, i) ==
    IF i > Len(l) THEN <<>>
    ELSE labels_bytes(split(l[i]), 1) \o <<0>> \o DomainList_bytes(l, i + 1)

(***************************************************************************)
(* DhcpOptionType::decode and DhcpOptionTypeValue::as_bytes                *)
(***************************************************************************)
DhcpOptionType_decode(self, v) ==
    CASE self = "String" ->
             MapVariant("String",
                 IF U8Str_parse_into(v) = None THEN None
                 ELSE Some(from_utf8_lossy(U8Str_parse_into(v)[1])))
      [] self = "Ip" -> MapVariant("Ip", Ipv4Addr_parse_into(v))
      [] self = "IpList" -> MapVariant("IpList", IpList_parse_into(v))
      [] self = "I32" -> MapVariant("I32", i32_parse_into(v))
      [] self = "U8" -> MapVariant("U8", u8_parse_into(v))
      [] self = "U16" -> MapVariant("U16", u16_parse_into(v))
      [] self = "U32" -> MapVariant("U32", u32_parse_into(v))
      [] self = "Bool" -> MapVariant("U8", u8_parse_into(v))
      [] self = "Seconds16" -> MapVariant("U16", u16_parse_into(v))
      [] self = "Seconds32" -> MapVariant("U32", u32_parse_into(v))
      [] self = "HwAddr" -> MapVariant("HwAddr", U8Str_parse_into(v))
      [] self = "Routes" -> MapVariant("Routes", Routes_parse_into(v))
      [] self = "DomainList" -> MapVariant("DomainList", VecString_parse_into(v))
      [] self = "Unknown" -> MapVariant("Unknown", U8Str_parse_into(v))

RECURSIVE IpList_bytes(_, _)
IpList_bytes(l, i) ==
    IF i > Len(l) THEN <<>> ELSE l[i] \o IpList_bytes(l, i + 1)

\* The routes written with the next hop before the prefix address.
RECURSIVE Routes_bytes_nexthop_first(_, _)
Routes_bytes_nexthop_first(l, i) ==
    IF i > Len(l) THEN <<>>
    ELSE <<l[i].prefix.prefixlen>> \o l[i].nexthop \o l[i].prefix.addr
             \o Routes_bytes_nexthop_first(l, i + 1)

RECURSIVE Routes_bytes(_, _)
Routes_bytes(l, i) ==
    IF i > Len(l) THEN <<>>
    ELSE <<l[i].prefix.prefixlen>> \o l[i].prefix.addr \o l[i].nexthop
             \o Routes_bytes(l, i + 1)

as_bytes(self) ==
    CASE self.variant = "String" -> self.x
      [] self.variant = "IpList" -> IpList_bytes(self.x, 1)
      [] self.variant = "Ip" -> self.x
      [] self.variant = "I32" -> i32_to_be_bytes(self.x)
      [] self.variant = "U8" -> <<self.x>>
      [] self.variant = "U16" -> u16_to_be_bytes(self.x)
      [] self.variant = "U32" -> u32_to_be_bytes(self.x)
      [] self.variant = "HwAddr" -> self.x
      [] self.variant = "Routes" -> Routes_bytes(self.x, 1)
      [] self.variant = "Unknown" -> self.x
      [] self.variant = "DomainList" -> DomainList_bytes(self.x, 1)

(***************************************************************************)
(* The option registry: OPT_INFO is a list of (name, option, type), each   *)
(* option written here as the u8 its OPTION_ constant holds.               *)
(***************************************************************************)
OPT_INFO ==
    <<
       <<"netmask", 1, "Ip">>,
       <<"time-offset", 2, "I32">>,
       <<"routers", 3, "IpList">>,
       <<"time-servers", 4, "IpList">>,
       <<"name-servers", 5, "IpList">>,
       <<"dns-servers", 6, "IpList">>,
       <<"log-servers", 7, "IpList">>,
       <<"quote-servers", 8, "IpList">>,
       <<"lpr-servers", 9, "IpList">>,
       <<"impress-servers", 10, "IpList">>,
       <<"rlp-servers", 11, "IpList">>,
       <<"host-name", 12, "String">>,
       <<"domain-name", 15, "String">>,
       <<"root-path", 17, "String">>,
       <<"extension-file", 18, "String">>,
       <<"forward", 19, "Bool">>,
       <<"source-route", 20, "Bool">>,
       <<"max-reassembly", 21, "Seconds16">>,
       <<"default-ttl", 23, "U8">>,
       <<"mtu-timeout", 24, "Seconds32">>,
       <<"mtu", 26, "U16">>,
       <<"mtu-subnet", 27, "Bool">>,
       <<"broadcast", 28, "Ip">>,
       <<"mask-discovery", 29, "Bool">>,
       <<"mask-supplier", 30, "Bool">>,
       <<"router-discovery", 31, "Bool">>,
       <<"router-request", 32, "Ip">>,
       <<"classful-route", 33, "Unknown">>,
       <<"trailers", 34, "Bool">>,
       <<"arp-timeout", 35, "Seconds32">>,
       <<"ethernet", 36, "Bool">>,
       <<"tcp-ttl", 37, "U16">>,
       <<"tcp-keepalive", 38, "Seconds32">>,
       <<"tcp-keepalive-garbage", 39, "Bool">>,
       <<"nis-domain", 40, "String">>,
       <<"nis-servers", 41, "IpList">>,
       <<"ntp-servers", 42, "IpList">>,
       <<"netbios-namesrv", 44, "IpList">>,
       <<"netbios-distsrv", 45, "IpList">>,
       <<"netbios-type", 46, "U8">>,
       <<"netbios-scope", 47, "String">>,
       <<"xwindow-font-servers", 48, "IpList">>,
       <<"xwindow-display", 49, "IpList">>,
       <<"address-request", 50, "Ip">>,
       <<"lease-time", 51, "Seconds32">>,
       <<"server-id", 54, "Ip">>,
       <<"message", 56, "String">>,
       <<"max-size", 57, "U16">>,
       <<"renewal-time", 58, "Seconds16">>,
       <<"rebind-time", 59, "Seconds16">>,
       <<"class-id", 60, "String">>,
       <<"client-id", 61, "HwAddr">>,
       <<"nisplus-domain", 64, "String">>,
       <<"nisplus-servers", 65, "IpList">>,
       <<"home-agent-servers", 68, "IpList">>,
       <<"smtp-servers", 69, "IpList">>,
       <<"pop3-servers", 70, "IpList">>,
       <<"nntp-servers", 71, "IpList">>,
       <<"www-servers", 72, "IpList">>,
       <<"finger-servers", 73, "IpList">>,
       <<"irc-servers", 74, "IpList">>,
       <<"streettalk-servers", 75, "IpList">>,
       <<"stda-servers", 76, "IpList">>,
       <<"user-class", 77, "String">>,
       <<"fqdn", 81, "String">>,
       <<"uuid", 97, "Unknown">>,
       <<"tz-rule", 100, "String">>,
       <<"tz-name", 101, "String">>,
       <<"autoconfig", 103, "Bool">>,
       <<"subnet-selection", 104, "Ip">>,
       <<"dns-searches", 119, "DomainList">>,
       <<"sip-servers", 120, "Unknown">>,
       <<"routes", 121, "Routes">>,
       <<"captive-portal", 160, "String">>,
       <<"wpad-url", 252, "String">>
    >>

\* The entries the loops of get_type, name_to_option and to_string stop at:
\* the first one with the option, or with the name, looked for.
FirstWithOption(self) ==
    LET hits == {i \in 1..Len(OPT_INFO) : OPT_INFO[i][2] = self}
    IN  IF hits = {} THEN None
        ELSE Some(CHOOSE i \in hits : \A j \in hits : i <= j)

FirstWithName(lookup_name) ==
    LET hits == {i \in 1..Len(OPT_INFO) : OPT_INFO[i][1] = lookup_name}
    IN  IF hits = {} THEN None
        ELSE Some(CHOOSE i \in hits : \A j \in hits : i <= j)

get_type(self) ==
    IF FirstWithOption(self) = None THEN None
    ELSE Some(OPT_INFO[FirstWithOption(self)[1]][3])

name_to_option(lookup_name) ==
    IF FirstWithName(lookup_name) = None THEN None
    ELSE Some(OPT_INFO[FirstWithName(lookup_name)[1]][2])

\* to_string that never consults the registry.
to_string_numbered(self) == "#" \o ToString(self)

\* format!("#{}", self.0) when no entry has the option
to_string(self) ==
    IF FirstWithOption(self) = None THEN "#" \o ToString(self)
    ELSE OPT_INFO[FirstWithOption(self)[1]][1]

(***************************************************************************)
(* The option-stream machine: bytes arrive, then parse_options is called.  *)
(***************************************************************************)
InitOpt ==
    /\ stream = <<>>
    /\ ores = NoResult

RecvByte(b) ==
    /\ ores.tag = "None"
    /\ Len(stream) < MaxStream
    /\ stream' = Append(stream, b)
    /\ UNCHANGED <<ores, pktVars, valVars, contVars, regVars, loopVars, typedVars, oldVars>>

ParseOptions ==
    /\ ores.tag = "None"
    /\ ores' = parse_options(Buffer_new(stream))
    /\ UNCHANGED <<stream, pktVars, valVars, contVars, regVars, loopVars, typedVars, oldVars>>

RecvAny == \E b \in StreamBytes : RecvByte(b)

NextOpt ==
    \/ RecvAny
    \/ ParseOptions

(***************************************************************************)
(* The packet machine: the sender builds a packet and serialises it, the   *)
(* bytes may be damaged or cut short in flight, the receiver parses them   *)
(* and calls accessors on the packet it got.                               *)
(***************************************************************************)
Fill(n, b) == [i \in 1..n |-> b]

Counting(n) == [i \in 1..n |-> i]

ZeroAddr == <<0, 0, 0, 0>>

EmptyOptions == [other |-> EmptyMap]

\* Dhcp { .. } with every field zero or empty
DefaultPkt ==
    [op |-> 0, htype |-> 0, hlen |-> 0, hops |-> 0, xid |-> <<0, 0>>, secs |-> 0,
     flags |-> 0, ciaddr |-> ZeroAddr, yiaddr |-> ZeroAddr, siaddr |-> ZeroAddr,
     giaddr |-> ZeroAddr, chaddr |-> <<>>, sname |-> <<>>, file |-> <<>>,
     options |-> EmptyOptions]

TypicalPkt ==
    [op |-> 1, htype |-> 1, hlen |-> 6, hops |-> 2, xid |-> U32Of(16909060),
     secs |-> 1286, flags |-> 32768, ciaddr |-> <<10, 0, 0, 1>>,
     yiaddr |-> <<10, 0, 0, 2>>, siaddr |-> <<10, 0, 0, 3>>,
     giaddr |-> <<10, 0, 0, 4>>, chaddr |-> <<0, 1, 2, 3, 4, 5>>,
     sname |-> <<97, 98>>, file |-> <<99>>, options |-> EmptyOptions]

FullPkt ==
    [op |-> 2, htype |-> 255, hlen |-> 16, hops |-> 255, xid |-> <<65535, 65535>>,
     secs |-> 65535, flags |-> 65535, ciaddr |-> <<255, 255, 255, 255>>,
     yiaddr |-> <<192, 0, 2, 1>>, siaddr |-> <<192, 0, 2, 254>>,
     giaddr |-> <<198, 51, 100, 7>>, chaddr |-> Counting(16),
     sname |-> Fill(64, 115), file |-> Fill(128, 102), options |-> EmptyOptions]

\* The packets the sender may construct: well-formed ones, and ones whose
\* fields disagree (hlen against chaddr, content longer than its slot, a
\* zero byte inside sname or file).
PktSamples ==
    { DefaultPkt, TypicalPkt, FullPkt,
      [TypicalPkt EXCEPT !.hlen = 17, !.chaddr = Counting(16)],
      [TypicalPkt EXCEPT !.chaddr = <<>>, !.sname = <<97, 0, 98>>],
      [TypicalPkt EXCEPT !.hlen = 2, !.file = <<0>>],
      [FullPkt EXCEPT !.chaddr = Counting(17), !.sname = Fill(65, 115)] }

\* The (code, payload) pairs the sender may set.
PktOptSamples ==
    ({OPTION_ADDRESSREQUEST, OPTION_SERVERID} \X {<<1, 2, 3>>, <<192, 0, 2, 1>>})
    \cup ({OPTION_SERVERID, OPTION_CLIENTID} \X {<<>>})
    \cup {<<OPTION_CLIENTID, <<1, 2, 3>>>>,
          <<OPTION_CLIENTID, Fill(255, 7)>>, <<OPTION_CLIENTID, Fill(256, 255)>>,
          <<OPTION_END, <<1>>>>, <<OPTION_PAD, <<>>>>}

\* The bytes read up to and including the chaddr slot, and up to and
\* including the magic.
ThroughChaddr == 1 + 1 + 1 + 1 + 4 + 2 + 2 + 4 + 4 + 4 + 4 + 16
ThroughMagic == ThroughChaddr + 64 + 128 + 4

\* Where the bytes in flight may be overwritten (1-based): the hlen byte,
\* the first and last byte of the magic, the first byte of the options.
HlenAt == 1 + 1 + 1
CorruptAt == {HlenAt, ThroughMagic - 3, ThroughMagic, ThroughMagic + 1}
CorruptTo == {255}

\* The lengths the bytes in flight may be cut to.
CutPoints ==
    {0, ThroughChaddr - 1, ThroughChaddr, ThroughMagic - 5, ThroughMagic - 1,
     ThroughMagic}

NoObs == [op |-> "none", arg |-> 0, val |-> None]

NotAgain == [op |-> "none", res |-> NoResult]

\* Option streams of packets that other senders made: a repeated code with
\* another option between its occurrences, a code repeated with 128 payload
\* bytes each time, pad bytes around the options, bytes after the end marker.
ForeignStreams ==
    { <<53, 1, 1, 54, 4, 192, 0, 2, 1, 53, 1, 2, 255>>,
      <<61, 128>> \o Fill(128, 7) \o <<61, 128>> \o Fill(128, 8) \o <<255>>,
      <<0, 54, 2, 10, 0, 0, 54, 2, 0, 1, 0, 255>>,
      <<54, 0, 255, 1, 2, 3>>,
      <<255>> }

\* The bytes that may follow a packet in the slice given to parse: pad, an
\* end marker, a whole option and an end marker, the start of an option.
TailSamples == {<<0>>, <<255>>, <<53, 1, 1, 255>>, <<54, 4, 1>>}

\* The fixed header and magic of the foreign packets: op 1, htype 1, hlen 6,
\* hops 0, then bytes with a zero in every eighth place, and the magic.
ForeignHeader ==
    <<1, 1, 6, 0>> \o [i \in 1..(ThroughMagic - 8) |-> IF i % 8 = 0 THEN 0 ELSE 65]
        \o <<99, 130, 83, 99>>

InitPkt ==
    /\ dhcp = DefaultPkt
    /\ wire = <<>>
    /\ res = NoResult
    /\ obs = NoObs
    /\ again = NotAgain
    /\ phase = "idle"

NewPacket(p) ==
    /\ phase = "idle"
    /\ dhcp' = p
    /\ phase' = "build"
    /\ UNCHANGED <<wire, res, obs, again, optVars, valVars, contVars, regVars,
                 loopVars, typedVars, oldVars>>

\* dhcp.options = dhcp.options.set_raw_option(&DhcpOption(code), value)
PktSetRawOption(code, value) ==
    /\ phase = "build"
    /\ Cardinality(DOMAIN dhcp.options.other \cup {code}) <= MaxOpts
    /\ dhcp' = [dhcp EXCEPT !.options = set_raw_option(@, code, value)]
    /\ UNCHANGED <<wire, res, obs, phase, again, optVars, valVars, contVars, regVars,
                 loopVars, typedVars, oldVars>>

Serialise(order) ==
    /\ phase = "build"
    /\ wire' = Dhcp_serialise(dhcp, order)
    /\ phase' = "sent"
    /\ UNCHANGED <<dhcp, res, obs, again, optVars, valVars, contVars, regVars,
                 loopVars, typedVars, oldVars>>

Corrupt(i, b) ==
    /\ phase = "sent"
    /\ i <= Len(wire)
    /\ wire[i] # b
    /\ wire' = [wire EXCEPT ![i] = b]
    /\ phase' = "corrupted"
    /\ UNCHANGED <<dhcp, res, obs, again, optVars, valVars, contVars, regVars,
                 loopVars, typedVars, oldVars>>

Truncate(n) ==
    /\ phase \in {"sent", "corrupted"}
    /\ n < Len(wire)
    /\ wire' = SubSeq(wire, 1, n)
    /\ phase' = "cut"
    /\ UNCHANGED <<dhcp, res, obs, again, optVars, valVars, contVars, regVars,
                 loopVars, typedVars, oldVars>>

\* A packet of another sender arrives.
ForeignPacket(s) ==
    /\ phase = "idle"
    /\ wire' = ForeignHeader \o s
    /\ phase' = "foreign"
    /\ UNCHANGED <<dhcp, res, obs, again, optVars, valVars, contVars, regVars,
                   loopVars, typedVars, oldVars>>

Parse ==
    /\ phase \in {"sent", "corrupted", "cut", "foreign"}
    /\ res' = parse(wire)
    /\ phase' = "parsed"
    /\ UNCHANGED <<dhcp, wire, obs, again, optVars, valVars, contVars, regVars,
                 loopVars, typedVars, oldVars>>

\* An accessor called on the packet parse returned.
Observe(op, arg, val) ==
    /\ phase = "parsed"
    /\ res.tag = "Ok"
    /\ obs = NoObs
    /\ again = NotAgain
    /\ obs' = [op |-> op, arg |-> arg, val |-> val]
    /\ UNCHANGED <<dhcp, wire, res, phase, again, optVars, valVars, contVars, regVars,
                 loopVars, typedVars, oldVars>>

\* parse called on bytes made from the ones it accepted.
ParseAgain(op, bytes) ==
    /\ phase = "parsed"
    /\ res.tag = "Ok"
    /\ obs = NoObs
    /\ again = NotAgain
    /\ again' = [op |-> op, res |-> parse(bytes)]
    /\ UNCHANGED <<dhcp, wire, res, obs, phase, optVars, valVars, contVars,
                   regVars, loopVars, typedVars, oldVars>>

\* parse(&pkt.serialise()) for the packet pkt that parse returned
Reserialise(order) == ParseAgain("serialise", Dhcp_serialise(res.val, order))

\* parse of the slice that holds the packet and then the bytes t
ParseWithTail(t) == ParseAgain("tail", wire \o t)

GetRawOption(code) ==
    Observe("get_raw_option", code, get_raw_option(res.val.options, code))

GetServerid == Observe("get_serverid", 0, get_serverid(res.val.options))

GetAddressRequest ==
    Observe("get_address_request", 0, get_address_request(res.val.options))

GetClientidOption == Observe("get_clientid", 0, get_clientid(res.val.options))

GetClientId == Observe("get_client_id", 0, Some(get_client_id(res.val)))

\* DhcpOptionType::Ip.decode on the raw payload of an option that is there
DecodeIp(code) ==
    /\ phase = "parsed" /\ res.tag = "Ok"
    /\ code \in DOMAIN res.val.options.other
    /\ Observe("decode_ip", code,
               DhcpOptionType_decode("Ip", res.val.options.other[code]))

SetAnyOption == \E s \in PktOptSamples : PktSetRawOption(s[1], s[2])
NewAnyPacket == \E p \in PktSamples : NewPacket(p)
SerialiseAny == \E order \in IterOrders(dhcp.options.other) : Serialise(order)
CorruptAny == \E i \in CorruptAt, b \in CorruptTo : Corrupt(i, b)
TruncateAny == \E n \in CutPoints \cup {Len(wire) - 1} : Truncate(n)
GetAnyRawOption ==
    \E code \in {OPTION_ADDRESSREQUEST, OPTION_SERVERID, OPTION_CLIENTID} :
        GetRawOption(code)
DecodeAnyIp == \E code \in {OPTION_ADDRESSREQUEST, OPTION_SERVERID} : DecodeIp(code)

ForeignAnyPacket == \E s \in ForeignStreams : ForeignPacket(s)
ReserialiseAny ==
    /\ phase = "parsed" /\ res.tag = "Ok"
    /\ \E order \in IterOrders(res.val.options.other) : Reserialise(order)
ParseWithAnyTail == \E t \in TailSamples : ParseWithTail(t)

NextPkt ==
    \/ NewAnyPacket
    \/ ForeignAnyPacket
    \/ ReserialiseAny
    \/ ParseWithAnyTail
    \/ SetAnyOption
    \/ SerialiseAny
    \/ CorruptAny
    \/ TruncateAny
    \/ Parse
    \/ GetAnyRawOption
    \/ GetServerid
    \/ GetAddressRequest
    \/ GetClientidOption
    \/ GetClientId
    \/ DecodeAnyIp

(***************************************************************************)
(* The typed-value machine: a typed value is chosen, encoded with          *)
(* as_bytes, and the bytes are decoded with the type tag of its variant.   *)
(***************************************************************************)
MaxChars == 2
MaxList == 2

\* The sequences of at most n elements of S.
SeqsUpTo(S, n) == UNION {[1..k -> S] : k \in 0..n}

RECURSIVE Flatten(_, _)
Flatten(ss, i) == IF i > Len(ss) THEN <<>> ELSE ss[i] \o Flatten(ss, i + 1)

\* The UTF-8 encodings of t, e-acute, the euro sign and an emoji.
CharSamples == {<<116>>, <<195, 169>>, <<226, 130, 172>>, <<240, 159, 146, 169>>}

StringSamples == {Flatten(cs, 1) : cs \in SeqsUpTo(CharSamples, MaxChars)}

IpSamples == {<<192, 0, 2, 0>>, <<0, 0, 0, 0>>, <<255, 255, 255, 254>>}

\* Route { prefix: Ipv4Subnet::new(addr, prefixlen).unwrap(), nexthop }
Route(addr, prefixlen, nexthop) ==
    [prefix |-> Ipv4Subnet_new(addr, prefixlen)[1], nexthop |-> nexthop]

RouteSamples ==
    { Route(<<192, 0, 2, 0>>, 24, <<192, 0, 2, 254>>),
      Route(<<0, 0, 0, 0>>, 0, <<10, 0, 0, 1>>),
      Route(<<10, 1, 2, 3>>, 32, <<0, 0, 0, 0>>) }

\* Domain names: a, bc.a and a.bc.a, a name with a label of 63 bytes, and
\* names that are no domain names: the empty one, ones with an empty label
\* in front, at the end and in the middle, one with a label of 256 bytes.
NameSamples ==
    { <<97>>, <<98, 99, DOT, 97>>, <<97, DOT, 98, 99, DOT, 97>>,
      Fill(63, 120) \o <<DOT, 97>>,
      <<>>, <<DOT, 97>>, <<97, DOT>>, <<97, DOT, DOT, 97>>, Fill(256, 120) }


ByteStringSamples == {<<>>, <<0>>, <<0, 1, 2, 3, 4, 5>>, <<255, 0, 255>>}

I32Samples == {I32_MIN, -16909060, -1, 0, 16909060, I32_MAX}
U8Samples == {0, 42, 255}
U16Samples == {0, 258, 65535}
U32Samples == {<<0, 0>>, U32Of(16909060), <<32768, 0>>, <<65535, 65535>>}

NoValue == TypedValue("None", 0)

InitVal ==
    /\ typed = NoValue
    /\ vbytes = <<>>
    /\ dec = None
    /\ vphase = "idle"
    /\ tag = "none"

ChooseValue(v) ==
    /\ vphase = "idle"
    /\ typed' = v
    /\ vphase' = "chosen"
    /\ UNCHANGED <<vbytes, dec, tag, optVars, pktVars, contVars, regVars, loopVars, typedVars, oldVars>>

Encode ==
    /\ vphase = "chosen"
    /\ vbytes' = as_bytes(typed)
    /\ vphase' = "encoded"
    /\ UNCHANGED <<typed, dec, tag, optVars, pktVars, contVars, regVars, loopVars, typedVars, oldVars>>

Decode ==
    /\ vphase = "encoded"
    /\ tag' = typed.variant
    /\ dec' = DhcpOptionType_decode(typed.variant, vbytes)
    /\ vphase' = "decoded"
    /\ UNCHANGED <<typed, vbytes, optVars, pktVars, contVars, regVars, loopVars, typedVars, oldVars>>

\* The payloads of integer options: every byte string of up to MaxIntBytes
\* bytes over IntBytes, so shorter and longer than every integer width.
MaxIntBytes == 5
IntBytes == {0, 1, 128, 255}
IntPayloads == SeqsUpTo(IntBytes, MaxIntBytes)

IntTags == {"I32", "U8", "U16", "U32", "Bool", "Seconds16", "Seconds32"}

\* The payloads of address options: up to MaxList addresses, then up to
\* three bytes of a group that is cut short.
AddrPayloads ==
    {Flatten(l, 1) \o t : l \in SeqsUpTo(IpSamples, MaxList),
                          t \in {<<>>, <<7>>, <<7, 8>>, <<7, 8, 9>>}}

\* 9-byte route groups: three with a valid prefix, one with an address bit
\* set after the prefix, one with a prefix length above 32.
GroupSamples ==
    { <<24, 192, 0, 2, 0, 192, 0, 2, 254>>, <<0, 0, 0, 0, 0, 10, 0, 0, 1>>,
      <<32, 10, 1, 2, 3, 0, 0, 0, 0>>, <<24, 192, 0, 2, 1, 192, 0, 2, 254>>,
      <<33, 0, 0, 0, 0, 10, 0, 0, 1>> }

\* The payloads of route options: up to MaxList groups, then up to eight
\* bytes of a group that is cut short.
RoutePayloads ==
    {Flatten(l, 1) \o SubSeq(<<8, 10, 0, 0, 0, 10, 0, 0, 1>>, 1, n) :
        l \in SeqsUpTo(GroupSamples, MaxList), n \in 0..8}

\* Bytes arrive as the payload of an option whose type tag is t.
ReceiveBytes(t, b) ==
    /\ vphase = "idle"
    /\ tag' = t
    /\ vbytes' = b
    /\ vphase' = "received"
    /\ UNCHANGED <<typed, dec, optVars, pktVars, contVars, regVars, loopVars, typedVars, oldVars>>

DecodeBytes ==
    /\ vphase = "received"
    /\ dec' = DhcpOptionType_decode(tag, vbytes)
    /\ vphase' = "decoded_bytes"
    /\ UNCHANGED <<typed, vbytes, tag, optVars, pktVars, contVars, regVars, loopVars, typedVars, oldVars>>

ReceiveAnyBytes ==
    /\ vphase = "idle"
    /\ \/ \E t \in IntTags, b \in IntPayloads : ReceiveBytes(t, b)
       \/ \E t \in {"Ip", "IpList"}, b \in AddrPayloads : ReceiveBytes(t, b)
       \/ \E b \in RoutePayloads : ReceiveBytes("Routes", b)
       \/ \E t \in {"HwAddr", "Unknown"}, b \in ByteStringSamples : ReceiveBytes(t, b)

\* The integer types whose parser is the fold over all the bytes.
FoldTypes == {"u16", "u32", "i32", "u64"}

\* Payloads of up to MaxFoldBytes bytes, more than the eight of a u64: the
\* runs of bytes of four patterns of that length (the bytes counted up, all
\* 255, 128 0 255 repeated, and zeros before 127 255 255 255).
MaxFoldBytes == 10
FoldPatterns ==
    { [i \in 1..MaxFoldBytes |-> i],
      [i \in 1..MaxFoldBytes |-> 255],
      [i \in 1..MaxFoldBytes |-> IF i % 3 = 1 THEN 128 ELSE IF i % 3 = 2 THEN 0 ELSE 255],
      [i \in 1..MaxFoldBytes |->
          IF i <= MaxFoldBytes - 4 THEN 0 ELSE IF i = MaxFoldBytes - 3 THEN 127 ELSE 255] }
FoldPayloads ==
    {SubSeq(p, i, j) : p \in FoldPatterns, i \in 1..MaxFoldBytes, j \in 0..MaxFoldBytes}

\* T::parse_into(v) for the integer type named ty
int_parse_into(ty, v) ==
    CASE ty = "u16" -> u16_parse_into(v)
      [] ty = "u32" -> u32_parse_into(v)
      [] ty = "i32" -> i32_parse_into(v)
      [] ty = "u64" -> u64_parse_into(v)

\* T::parse_into(b) is called on a payload b.
ParseInt(ty, b) ==
    /\ vphase = "idle"
    /\ tag' = ty
    /\ vbytes' = b
    /\ dec' = int_parse_into(ty, b)
    /\ vphase' = "parsed_int"
    /\ UNCHANGED <<typed, optVars, pktVars, contVars, regVars, loopVars, typedVars, oldVars>>

ParseAnyInt ==
    /\ vphase = "idle"
    /\ \E ty \in FoldTypes, b \in FoldPayloads \cup IntPayloads : ParseInt(ty, b)

ChooseAnyValue ==
    \/ \E x \in StringSamples : ChooseValue(TypedValue("String", x))
    \/ \E x \in IpSamples : ChooseValue(TypedValue("Ip", x))
    \/ \E x \in SeqsUpTo(IpSamples, MaxList) : ChooseValue(TypedValue("IpList", x))
    \/ \E x \in I32Samples : ChooseValue(TypedValue("I32", x))
    \/ \E x \in U8Samples : ChooseValue(TypedValue("U8", x))
    \/ \E x \in U16Samples : ChooseValue(TypedValue("U16", x))
    \/ \E x \in U32Samples : ChooseValue(TypedValue("U32", x))
    \/ \E x \in ByteStringSamples : ChooseValue(TypedValue("HwAddr", x))
    \/ \E x \in SeqsUpTo(RouteSamples, MaxList) : ChooseValue(TypedValue("Routes", x))
    \/ \E x \in ByteStringSamples : ChooseValue(TypedValue("Unknown", x))
    \/ \E x \in SeqsUpTo(NameSamples, MaxList) :
           ChooseValue(TypedValue("DomainList", x))

NextVal ==
    \/ ChooseAnyValue
    \/ Encode
    \/ Decode
    \/ ReceiveAnyBytes
    \/ DecodeBytes
    \/ ParseAnyInt

(***************************************************************************)
(* The container machine: a DhcpOptions under its caller's operations.     *)
(* A value of a type T: Serialise is [ty, v].                              *)
(***************************************************************************)
RustValue(ty, x) == [ty |-> ty, v |-> x]

RECURSIVE Serialise_serialise(_)

RECURSIVE Vec_serialise(_, _)
\* for i in self { i.serialise(v); }
Vec_serialise(items, i) ==
    IF i > Len(items) THEN <<>>
    ELSE Serialise_serialise(items[i]) \o Vec_serialise(items, i + 1)

Serialise_serialise(value) ==
    CASE value.ty = "u8" -> u8_serialise(value.v)
      [] value.ty = "u16" -> u16_serialise(value.v)
      [] value.ty = "u32" -> u32_serialise(value.v)
      [] value.ty = "Ipv4Addr" -> Ipv4Addr_serialise(value.v)
      [] value.ty = "bytes" -> value.v
      [] value.ty = "MessageType" -> u8_serialise(value.v)
      [] value.ty = "Vec" -> Vec_serialise(value.v, 1)
      [] value.ty = "String" -> value.v
      [] value.ty = "i32" -> i32_serialise(value.v)
      [] value.ty = "DhcpOptionTypeValue" -> as_bytes(value.v)

\* self.other.insert(*option, bytes)
Insert(self, option, bytes) == [other |-> (option :> bytes) @@ self.other]

set_option(self, option, value) ==
    set_raw_option(self, option, Serialise_serialise(value))

mutate_option(self, option, value) == Insert(self, option, Serialise_serialise(value))

mutate_option_value(self, option, value) == Insert(self, option, as_bytes(value))

\* maybe_set_option taking no value as a request to drop the option.
maybe_set_option_none_removes(self, option, value) ==
    IF value # None THEN set_option(self, option, value[1])
    ELSE remove_option(self, option)

maybe_set_option(self, option, value) ==
    IF value # None THEN set_option(self, option, value[1]) ELSE self

\* DhcpOption::new(opt) and From<u8> for DhcpOption accept every u8.
DhcpOption_new(opt) == opt

ContCodes == {DhcpOption_new(c) : c \in {OPTION_PAD, OPTION_MSGTYPE, OPTION_END}}

ContRaw == {<<>>, <<1, 2>>}

\* Values of the types that implement Serialise, grouped by their shape.
ContInts ==
    { RustValue("u8", 5), RustValue("u16", 258), RustValue("i32", -2),
      RustValue("MessageType", 1) }

ContWords ==
    { RustValue("u32", U32Of(16909060)), RustValue("Ipv4Addr", <<192, 0, 2, 1>>),
      RustValue("String", <<104, 105>>) }

ContVecs ==
    { RustValue("Vec", <<RustValue("Ipv4Addr", <<192, 0, 2, 1>>),
                         RustValue("Ipv4Addr", <<192, 0, 2, 2>>)>>) }

ForSomeValue(A(_)) ==
    \/ \E v \in ContInts : A(v)
    \/ \E v \in ContWords : A(v)
    \/ \E v \in ContVecs : A(v)

ContIps == {TypedValue("Ip", <<10, 0, 0, 1>>)}
ContU8s == {TypedValue("U8", 7)}

\* Option streams a container may be parsed from: one with a repeated code,
\* its two occurrences separated by another option.
ContStreams ==
    { <<OPTION_MSGTYPE, 1, 1, OPTION_SERVERID, 4, 192, 0, 2, 1,
        OPTION_MSGTYPE, 1, 2, OPTION_END>>,
      <<OPTION_SERVERID, 4, 192, 0, 2, 1, OPTION_END>> }

\* What the caller did last to an option code: nothing yet, a setter call
\* with the bytes it was given to write, or a remove.
Untouched == [c \in ContCodes |-> [op |-> "none", bytes |-> <<>>]]
Written(code, bytes) == [last EXCEPT ![code] = [op |-> "set", bytes |-> bytes]]
Removed(code) == [last EXCEPT ![code] = [op |-> "remove", bytes |-> <<>>]]

NoCall == [op |-> "other", self |-> EmptyOptions, option |-> OPTION_PAD, value |-> None]

InitCont ==
    /\ opts = EmptyOptions
    /\ last = Untouched
    /\ call = NoCall

\* A call of op with the arguments option and value on the container opts:
\* next is the container after it, done the record of the calls so far.
ContStep(op, option, value, next, done) ==
    /\ call = NoCall
    /\ opts' = next
    /\ last' = done
    /\ call' = [op |-> op, self |-> opts, option |-> option, value |-> value]
    /\ UNCHANGED <<optVars, pktVars, valVars, regVars, loopVars, typedVars, oldVars>>

SetRawOption(code, value) ==
    ContStep("set_raw_option", code, Some(value),
             set_raw_option(opts, code, value), Written(code, value))

SetOption(code, value) ==
    ContStep("set_option", code, Some(value),
             set_option(opts, code, value),
             Written(code, Serialise_serialise(value)))

MutateOption(code, value) ==
    ContStep("mutate_option", code, Some(value),
             mutate_option(opts, code, value),
             Written(code, Serialise_serialise(value)))

MutateOptionValue(code, value) ==
    ContStep("mutate_option_value", code, Some(value),
             mutate_option_value(opts, code, value), Written(code, as_bytes(value)))

MaybeSetOption(code, value) ==
    ContStep("maybe_set_option", code, value,
             maybe_set_option(opts, code, value),
             IF value = None THEN last
             ELSE Written(code, Serialise_serialise(value[1])))

\* A getter called on the container: it borrows self and returns a value.
Getter(op, code) == ContStep(op, code, None, opts, last)

GetRaw(code) == Getter("get_raw_option", code)

ConvenienceGetter ==
    \/ Getter("get_serverid", OPTION_SERVERID)
    \/ Getter("get_clientid", OPTION_CLIENTID)
    \/ Getter("get_address_request", OPTION_ADDRESSREQUEST)

\* The caller takes what the call returned and drops its arguments.
TakeResult ==
    /\ call # NoCall
    /\ call' = NoCall
    /\ UNCHANGED <<opts, last, optVars, pktVars, valVars, regVars, loopVars, typedVars, oldVars>>

RemoveOption(code) ==
    ContStep("remove_option", code, None, remove_option(opts, code), Removed(code))

\* A container as parse_options returns it.
ParsedContainer(s) ==
    /\ call = NoCall
    /\ parse_options(Buffer_new(s)).tag = "Ok"
    /\ opts' = parse_options(Buffer_new(s)).val
    /\ last' = Untouched
    /\ UNCHANGED <<call, optVars, pktVars, valVars, regVars, loopVars, typedVars, oldVars>>

SetAnyRawOption == \E code \in ContCodes, value \in ContRaw : SetRawOption(code, value)

SetAnyTypedOption ==
    \E code \in ContCodes : ForSomeValue(LAMBDA v : SetOption(code, v))

MutateAnyOption ==
    \E code \in ContCodes : ForSomeValue(LAMBDA v : MutateOption(code, v))

MutateAnyOptionValue ==
    \E code \in ContCodes :
        \/ \E value \in ContIps : MutateOptionValue(code, value)
        \/ \E value \in ContU8s : MutateOptionValue(code, value)

MaybeSetAnyOption ==
    \E code \in ContCodes :
        \/ MaybeSetOption(code, None)
        \/ ForSomeValue(LAMBDA v : MaybeSetOption(code, Some(v)))

RemoveAnyOption == \E code \in ContCodes : RemoveOption(code)

GetAnyRaw == \E code \in ContCodes \cup {OPTION_SERVERID} : GetRaw(code)

ParseAnyContainer == \E s \in ContStreams : ParsedContainer(s)

NextCont ==
    \/ SetAnyRawOption
    \/ SetAnyTypedOption
    \/ MutateAnyOption
    \/ MutateAnyOptionValue
    \/ MaybeSetAnyOption
    \/ TakeResult
    \/ RemoveAnyOption
    \/ GetAnyRaw
    \/ ConvenienceGetter
    \/ ParseAnyContainer

(***************************************************************************)
(* The registry machine: a caller looks options and names up, and may look *)
(* up again what the last lookup returned.                                 *)
(***************************************************************************)
\* Names no entry has: the empty one, a listed name in capitals, and the
\* text to_string makes of an unlisted and of a listed code.
OtherNames == {"", "NETMASK", "#53", "#1"}

ListedNames == {OPT_INFO[i][1] : i \in 1..Len(OPT_INFO)}

\* A lookup: the function called, its result (an option, a name or a type,
\* by the function), and the option or the name it was called for.
Lookup(op, forOption, forName, option, name, ty) ==
    [op |-> op, forOption |-> forOption, forName |-> forName,
     option |-> option, name |-> name, ty |-> ty]

InitReg == lookup = Lookup("none", None, "", None, "", None)

RegStep(l) ==
    /\ lookup' = l
    /\ UNCHANGED <<optVars, pktVars, valVars, contVars, loopVars, typedVars, oldVars>>

\* o.get_type()
GetType(o) ==
    /\ lookup.op = "none"
    /\ RegStep(Lookup("get_type", Some(o), "", None, "", get_type(o)))

\* o.to_string()
ToStringOf(o) ==
    /\ lookup.op = "none"
    /\ RegStep(Lookup("to_string", Some(o), "", None, to_string(o), None))

\* name_to_option(n)
NameToOption(n) ==
    /\ lookup.op = "none"
    /\ RegStep(Lookup("name_to_option", None, n, name_to_option(n), "", None))

\* name_to_option(o.to_string()), o.to_string() being the last lookup
NameOfStringToOption ==
    /\ lookup.op = "to_string"
    /\ RegStep(Lookup("name_to_option(to_string)", lookup.forOption, "",
                       name_to_option(lookup.name), "", None))

\* name_to_option(n).to_string(), name_to_option(n) being the last lookup
OptionOfNameToString ==
    /\ lookup.op = "name_to_option"
    /\ lookup.option # None
    /\ RegStep(Lookup("to_string(name_to_option)", None, lookup.forName,
                       None, to_string(lookup.option[1]), None))

NextReg ==
    \/ \E o \in 0..255 : GetType(DhcpOption_new(o))
    \/ \E o \in 0..255 : ToStringOf(DhcpOption_new(o))
    \/ \E n \in ListedNames : NameToOption(n)
    \/ \E n \in OtherNames : NameToOption(n)
    \/ NameOfStringToOption
    \/ OptionOfNameToString

(***************************************************************************)
(* The loop machine: parse_options is called on an option stream and runs  *)
(* one pass of its loop per step, until it leaves the loop or returns.     *)
(***************************************************************************)
LoopInputs == SeqsUpTo(StreamBytes, MaxLoop)

\* data is the input, passes the number of passes begun so far.
Running(data, buf, raw_options, passes) ==
    [at |-> "loop", data |-> data, buf |-> buf, raw_options |-> raw_options,
     passes |-> passes, res |-> NoResult]

Returned(data, buf, raw_options, passes, result) ==
    [at |-> "returned", data |-> data, buf |-> buf, raw_options |-> raw_options,
     passes |-> passes, res |-> result]

\* Before the call.
NotCalled ==
    [at |-> "caller", data |-> <<>>, buf |-> Buffer_new(<<>>),
     raw_options |-> EmptyMap, passes |-> 0, res |-> NoResult]

InitLoop == run = NotCalled

\* parse_options(buf): raw_options is made, the loop is entered
CallParseOptions(data) ==
    /\ run.at = "caller"
    /\ run' = Running(data, Buffer_new(data), EmptyMap, 0)
    /\ UNCHANGED <<optVars, pktVars, valVars, contVars, regVars, typedVars, oldVars>>

\* One pass of the loop; after a break, Ok(DhcpOptions { other: raw_options }).
LoopPass ==
    /\ run.at = "loop"
    /\ LET b == loop_body(run.buf, run.raw_options)
       IN  run' = IF b.ctl = "continue"
                  THEN Running(run.data, b.buf, b.raw_options, run.passes + 1)
                  ELSE Returned(run.data, b.buf, b.raw_options, run.passes + 1,
                                IF b.ctl = "break"
                                THEN Ok([other |-> b.raw_options], b.buf)
                                ELSE b.res)
    /\ UNCHANGED <<optVars, pktVars, valVars, contVars, regVars, typedVars, oldVars>>

CallParseOptionsAny ==
    /\ run.at = "caller"
    /\ \E data \in LoopInputs : CallParseOptions(data)

NextLoop ==
    \/ CallParseOptionsAny
    \/ LoopPass

(***************************************************************************)
(* The typed machine: a value of a type that implements Serialise is       *)
(* stored in a container and read back with the DhcpParse of its type.     *)
(***************************************************************************)
\* MessageType::parse_into accepting the message types that have a name.
MessageType_parse_into_known_only(v) ==
    IF Len(v) # 1 \/ v[1] \notin 1..9 THEN None ELSE Some(v[1])

\* if v.len() != 1 { None } else { Some(MessageType(v[0])) }
MessageType_parse_into(v) ==
    IF Len(v) # 1 THEN None ELSE Some(v[1])

get_messagetype(self) == get_option(MessageType_parse_into, self, OPTION_MSGTYPE)

\* get_option::<T>(option), T the type named ty.
get_option_as(ty, self, option) ==
    CASE ty = "u8" -> get_option(u8_parse_into, self, option)
      [] ty = "u16" -> get_option(u16_parse_into, self, option)
      [] ty = "u32" -> get_option(u32_parse_into, self, option)
      [] ty = "i32" -> get_option(i32_parse_into, self, option)
      [] ty = "Ipv4Addr" -> get_option(Ipv4Addr_parse_into, self, option)
      [] ty = "Vec" -> get_option(IpList_parse_into, self, option)
      [] ty = "String" -> get_option(String_parse_into, self, option)
      [] ty = "MessageType" -> get_option(MessageType_parse_into, self, option)

\* The values of MessageType: the named ones at both ends, and unnamed ones.
MessageTypeSamples == {0, 1, 9, 10, 255}

\* A container the value is stored in: an empty one, one that holds the
\* option already, and one that holds another option.
TypedBefore(option) ==
    { EmptyOptions,
      set_raw_option(EmptyOptions, option, <<9, 9, 9>>),
      set_raw_option(EmptyOptions, OPTION_SERVERID, <<192, 0, 2, 1>>) }

TypedOps == {"set_option", "mutate_option"}

NotKept ==
    [at |-> "empty", op |-> "none", option |-> 0, value |-> None,
     opts |-> EmptyOptions, got |-> None]

InitTyped == kept = NotKept

\* c.set_option(option, value), c.mutate_option(option, value) or
\* c.mutate_option_value(option, value) on the container c
Store(op, option, value, c) ==
    /\ kept.at = "empty"
    /\ kept' = [at |-> "stored", op |-> op, option |-> option, value |-> Some(value),
                opts |-> CASE op = "set_option" -> set_option(c, option, value)
                           [] op = "mutate_option" -> mutate_option(c, option, value)
                           [] op = "mutate_option_value" ->
                                  mutate_option_value(c, option, value),
                got |-> None]
    /\ UNCHANGED <<optVars, pktVars, valVars, contVars, regVars, loopVars, oldVars>>

StoreTyped(value) ==
    \E op \in TypedOps, option \in ContCodes :
        \E c \in TypedBefore(option) : Store(op, option, value, c)

StoreValue(value) ==
    \E option \in ContCodes :
        \E c \in TypedBefore(option) : Store("mutate_option_value", option, value, c)

StoreAnyTyped ==
    /\ kept.at = "empty"
    /\ \/ \E x \in U8Samples : StoreTyped(RustValue("u8", x))
       \/ \E x \in U16Samples : StoreTyped(RustValue("u16", x))
       \/ \E x \in U32Samples : StoreTyped(RustValue("u32", x))
       \/ \E x \in I32Samples : StoreTyped(RustValue("i32", x))
       \/ \E x \in IpSamples : StoreTyped(RustValue("Ipv4Addr", x))
       \/ \E x \in SeqsUpTo(IpSamples, MaxList) :
              StoreTyped(RustValue("Vec", [i \in DOMAIN x |-> RustValue("Ipv4Addr", x[i])]))
       \/ \E x \in StringSamples : StoreTyped(RustValue("String", x))
       \/ \E x \in MessageTypeSamples : StoreTyped(RustValue("MessageType", x))

StoreAnyValue ==
    /\ kept.at = "empty"
    /\ \/ \E x \in StringSamples : StoreValue(TypedValue("String", x))
       \/ \E x \in IpSamples : StoreValue(TypedValue("Ip", x))
       \/ \E x \in SeqsUpTo(IpSamples, MaxList) : StoreValue(TypedValue("IpList", x))
       \/ \E x \in I32Samples : StoreValue(TypedValue("I32", x))
       \/ \E x \in U8Samples : StoreValue(TypedValue("U8", x))
       \/ \E x \in U16Samples : StoreValue(TypedValue("U16", x))
       \/ \E x \in U32Samples : StoreValue(TypedValue("U32", x))
       \/ \E x \in ByteStringSamples : StoreValue(TypedValue("HwAddr", x))
       \/ \E x \in SeqsUpTo(RouteSamples, MaxList) : StoreValue(TypedValue("Routes", x))
       \/ \E x \in ByteStringSamples : StoreValue(TypedValue("Unknown", x))
       \/ \E x \in SeqsUpTo(NameSamples, MaxList) :
              StoreValue(TypedValue("DomainList", x))

\* get_option::<T>(option) for the T of the value stored, get_raw_option
\* after mutate_option_value
ReadBack ==
    /\ kept.at = "stored"
    /\ kept' = [kept EXCEPT
                  !.at = "read",
                  !.got = IF kept.op = "mutate_option_value"
                          THEN Some(get_raw_option(kept.opts, kept.option))
                          ELSE Some(get_option_as(kept.value[1].ty, kept.opts,
                                                  kept.option))]
    /\ UNCHANGED <<optVars, pktVars, valVars, contVars, regVars, loopVars, oldVars>>

NextTyped ==
    \/ StoreAnyTyped
    \/ StoreAnyValue
    \/ ReadBack

(***************************************************************************)
(* The older generation of the codec (src/dhcp/dhcppkt.rs).  It reads the  *)
(* packet with an iterator over its bytes, here the bytes and the number   *)
(* of them taken; a result is Ok or Err with its value.                    *)
(***************************************************************************)
OPTION_HOSTNAME == 12
OPTION_ADDRESSLEASETIME == 51
OPTION_PARAMLIST == 55

OldOk(v) == [tag |-> "Ok", val |-> v]
OldErr(e) == [tag |-> "Err", val |-> e]

old_iter(pkt) == [data |-> pkt, pos |-> 0]

\* match it.next() { Some(v) => Ok(*v), None => Err(UnexpectedEndOfInput) }
old_get_u8(it) ==
    IF it.pos < Len(it.data)
    THEN [ok |-> TRUE, val |-> it.data[it.pos + 1], it |-> [it EXCEPT !.pos = @ + 1]]
    ELSE [ok |-> FALSE, val |-> 0, it |-> it]

\* let mut v = vec![]; for _ in 0..l { v.push(get_u8(it)?); } Ok(v)
\* The l calls of get_u8 return the next l bytes when there are that many;
\* otherwise one of them finds the iterator at its end.
old_get_bytes(it, l) ==
    IF it.pos + l <= Len(it.data)
    THEN [ok |-> TRUE, val |-> SubSeq(it.data, it.pos + 1, it.pos + l),
          it |-> [it EXCEPT !.pos = @ + l]]
    ELSE [ok |-> FALSE, val |-> <<>>, it |-> [it EXCEPT !.pos = Len(it.data)]]

old_get_be16(it) ==
    LET r == old_get_bytes(it, 2)
    IN  [ok |-> r.ok, val |-> IF r.ok THEN r.val[1] * 256 + r.val[2] ELSE 0, it |-> r.it]

\* The u32 as its two 16-bit halves; the sum is below 2^32.
old_get_be32(it) ==
    LET r == old_get_bytes(it, 4)
    IN  [ok |-> r.ok,
         val |-> IF r.ok THEN <<r.val[1] * 256 + r.val[2], r.val[3] * 256 + r.val[4]>>
                 ELSE <<0, 0>>,
         it |-> r.it]

old_get_ipv4(it) == old_get_bytes(it, 4)

\* for i in 0..v.len() { if v[i] == 0 { v.truncate(i); break; } }
old_null_terminated(v) ==
    IF \E i \in 1..Len(v) : v[i] = 0
    THEN SubSeq(v, 1, (CHOOSE i \in 1..Len(v) : v[i] = 0 /\ \A j \in 1..(i - 1) : v[j] # 0) - 1)
    ELSE v

\* String::from_utf8(v).ok(): the string of bytes that are well-formed UTF-8,
\* which are the ones the lossy conversion leaves as they are.
from_utf8_ok(v) == IF from_utf8_lossy(v) = v THEN Some(v) ELSE None

RECURSIVE old_options_loop(_, _)
\* loop { match get_u8(&mut it) { Ok(0) => (), Ok(255) => break, Ok(x) => ..,
\* Err(e) => return Err(e) } }
old_options_loop(it, raw_options) ==
    LET c == old_get_u8(it)
    IN  IF ~c.ok THEN OldErr(UnexpectedEndOfInput)
        ELSE IF c.val = 0 THEN old_options_loop(c.it, raw_options)
        ELSE IF c.val = 255 THEN OldOk(raw_options)
        ELSE LET l == old_get_u8(c.it)
             IN  IF ~l.ok THEN OldErr(UnexpectedEndOfInput)
                 ELSE LET p == old_get_bytes(l.it, l.val)
                      IN  IF ~p.ok THEN OldErr(UnexpectedEndOfInput)
                          ELSE old_options_loop(
                                   p.it, EntryExtend(raw_options, c.val, p.val))

\* raw_options.remove(&option): the payload removed, and the map without it
Taken(raw, option) == IF option \in DOMAIN raw THEN Some(raw[option]) ELSE None
Without(raw, codes) == [o \in DOMAIN raw \ codes |-> raw[o]]

\* The message-type filter that wants exactly one byte.
MsgTypeUsable_exactly_one(m) == Len(m) = 1

\* .filter(|m| m.len() >= 1)
MsgTypeUsable(m) == Len(m) >= 1

\* The part of parse after the option loop: the typed fields are taken out
\* of raw_options, the rest stays in other.
old_options(raw_options) ==
    LET messagetype == Taken(raw_options, OPTION_MSGTYPE)
        serverid == Taken(raw_options, OPTION_SERVERID)
        hostname == Taken(raw_options, OPTION_HOSTNAME)
        leasetime == Taken(raw_options, OPTION_ADDRESSLEASETIME)
    IN  IF messagetype = None \/ ~MsgTypeUsable(messagetype[1])
        THEN OldErr(InvalidPacket)
        ELSE OldOk(
            [messagetype |-> messagetype[1][1],
             hostname |-> IF hostname = None THEN None
                          ELSE from_utf8_ok(old_null_terminated(hostname[1])),
             leasetime |-> IF leasetime = None THEN None
                           ELSE Some(FoldBE64(leasetime[1], 1, <<0, 0, 0, 0>>)),
             parameterlist |-> Taken(raw_options, OPTION_PARAMLIST),
             serveridentifier |-> IF serverid = None \/ Len(serverid[1]) # 4 THEN None
                                  ELSE Some(serverid[1]),
             clientidentifier |-> Taken(raw_options, OPTION_CLIENTID),
             other |-> Without(raw_options,
                               {OPTION_MSGTYPE, OPTION_SERVERID, OPTION_HOSTNAME,
                                OPTION_ADDRESSLEASETIME, OPTION_PARAMLIST,
                                OPTION_CLIENTID})])

old_parse(pkt) ==
    LET op == old_get_u8(old_iter(pkt))
        htype == old_get_u8(op.it)
        hlen == old_get_u8(htype.it)
        hops == old_get_u8(hlen.it)
        xid == old_get_be32(hops.it)
        secs == old_get_be16(xid.it)
        flags == old_get_be16(secs.it)
        ciaddr == old_get_ipv4(flags.it)
        yiaddr == old_get_ipv4(ciaddr.it)
        siaddr == old_get_ipv4(yiaddr.it)
        giaddr == old_get_ipv4(siaddr.it)
        chaddr == old_get_bytes(giaddr.it, 16)
        sname == old_get_bytes(chaddr.it, 64)
        file == old_get_bytes(sname.it, 128)
        magic == old_get_be32(file.it)
    IN  IF ~(/\ op.ok /\ htype.ok /\ hlen.ok /\ hops.ok /\ xid.ok /\ secs.ok
             /\ flags.ok /\ ciaddr.ok /\ yiaddr.ok /\ siaddr.ok /\ giaddr.ok
             /\ chaddr.ok /\ sname.ok /\ file.ok /\ magic.ok)
        THEN OldErr(UnexpectedEndOfInput)
        ELSE IF magic.val # U32Of(DHCP_MAGIC) THEN OldErr(WrongMagic)
        ELSE LET raw == old_options_loop(magic.it, EmptyMap)
             IN  IF raw.tag = "Err" THEN raw
                 ELSE LET options == old_options(raw.val)
                      IN  IF options.tag = "Err" THEN options
                          ELSE OldOk(
                              [op |-> op.val, htype |-> htype.val, hlen |-> hlen.val,
                               hops |-> hops.val, xid |-> xid.val, secs |-> secs.val,
                               flags |-> flags.val, ciaddr |-> ciaddr.val,
                               yiaddr |-> yiaddr.val, siaddr |-> siaddr.val,
                               giaddr |-> giaddr.val, chaddr |-> chaddr.val,
                               sname |-> old_null_terminated(sname.val),
                               file |-> old_null_terminated(file.val),
                               options |-> options.val])

\* self.other.get(&OPTION_ADDRESSREQUEST)
\*     .map(|addr| Ipv4Addr::new(addr[0], addr[1], addr[2], addr[3]))
\* addr[i] panics for an index that is not below addr.len().
old_get_address_request(self) ==
    IF OPTION_ADDRESSREQUEST \notin DOMAIN self.other
    THEN [panicked |-> FALSE, val |-> None]
    ELSE LET addr == self.other[OPTION_ADDRESSREQUEST]
         IN  IF Len(addr) < 4 THEN [panicked |-> TRUE, val |-> None]
             ELSE [panicked |-> FALSE,
                   val |-> Some(<<addr[1], addr[2], addr[3], addr[4]>>)]

(***************************************************************************)
(* The older codec at work: a packet arrives, parse is called on it, and   *)
(* get_address_request on the options of a parsed packet.                  *)
(***************************************************************************)
\* The fixed header and the magic: 236 bytes, none of the first 44 zero, a
\* zero inside sname and file, and DHCP_MAGIC.
OldHeader ==
    [i \in 1..236 |-> IF i <= 44 THEN i ELSE IF i % 8 = 0 THEN 0 ELSE 65]
        \o <<99, 130, 83, 99>>

\* Headers that are cut or carry another magic; no option follows them.
BadHeaders ==
    { <<>>, SubSeq(OldHeader, 1, 100), SubSeq(OldHeader, 1, 239),
      [OldHeader EXCEPT ![240] = 98] }

\* What an option stream is made of: pad and end bytes, options 53, 50 and
\* 54 with payloads that are empty, short, exact and long, options the
\* parser takes out of the map or leaves in it, and an option cut short.
OldPieces ==
    { <<0>>, <<255>>,
      <<53, 1, 1>>, <<53, 0>>, <<53, 2, 3, 8>>,
      <<50, 4, 10, 0, 0, 1>>, <<50, 0>>, <<50, 2, 10, 0>>, <<50, 5, 10, 0, 0, 2, 9>>,
      <<54, 4, 192, 0, 2, 1>>, <<54, 3, 192, 0, 2>>, <<54, 0>>,
      <<12, 2, 104, 105>>, <<51, 2, 14, 16>>, <<55, 2, 1, 3>>, <<61, 1, 7>>,
      <<1, 4, 255, 255, 255, 0>>, <<53, 1>> }

MaxPieces == 3

OldStreams == {Flatten(ps, 1) : ps \in SeqsUpTo(OldPieces, MaxPieces)}

Waiting == [at |-> "caller"]

InitOld == old = Waiting

\* parse(pkt) is called and returns.
OldParse(pkt, stream_) ==
    /\ old.at = "caller"
    /\ old' = [at |-> "parsed", pkt |-> pkt, stream |-> stream_, res |-> old_parse(pkt)]
    /\ UNCHANGED <<optVars, pktVars, valVars, contVars, regVars, loopVars, typedVars>>

OldParseAny ==
    /\ old.at = "caller"
    /\ \/ \E s \in OldStreams : OldParse(OldHeader \o s, s)
       \/ \E h \in BadHeaders : OldParse(h, <<>>)

\* get_address_request() is called on the options of the parsed packet.
OldGetAddressRequest ==
    /\ old.at = "parsed"
    /\ old.res.tag = "Ok"
    /\ old' = [at |-> "asked", pkt |-> old.pkt, stream |-> old.stream, res |-> old.res,
               got |-> old_get_address_request(old.res.val.options)]
    /\ UNCHANGED <<optVars, pktVars, valVars, contVars, regVars, loopVars, typedVars>>

NextOld ==
    \/ OldParseAny
    \/ OldGetAddressRequest

Init ==
    /\ InitOpt /\ InitPkt /\ InitVal /\ InitCont /\ InitReg /\ InitLoop
    /\ InitTyped /\ InitOld

SpecTyped == Init /\ [][NextTyped]_vars

SpecOld == Init /\ [][NextOld]_vars

\* parse_options is synchronous code: a pass that can be run is run.
SpecLoop == Init /\ [][NextLoop]_vars /\ WF_vars(LoopPass)

SpecReg == Init /\ [][NextReg]_vars

SpecPkt == Init /\ [][NextPkt]_vars

SpecVal == Init /\ [][NextVal]_vars

SpecCont == Init /\ [][NextCont]_vars


SpecOpt == Init /\ [][NextOpt]_vars

(***************************************************************************)
(* Properties of parse and serialise (under SpecPkt)                       *)
(***************************************************************************)
\* p is well formed: chaddr has hlen bytes and hlen is at most 16, sname has
\* at most 64 and file at most 128 bytes, none of them zero, the option keys
\* are in 1..254 and the payloads have at most 255 bytes.
WellFormed(p) ==
    /\ p.hlen <= 16
    /\ Len(p.chaddr) = p.hlen
    /\ Len(p.sname) <= 64
    /\ Len(p.file) <= 128
    /\ \A i \in 1..Len(p.sname) : p.sname[i] # 0
    /\ \A i \in 1..Len(p.file) : p.file[i] # 0
    /\ \A c \in DOMAIN p.options.other :
           c \in 1..254 /\ Len(p.options.other[c]) <= 255

\* The receiver parsed the bytes the sender serialised, as they were.
ParsedIntact ==
    /\ phase = "parsed"
    /\ \E order \in IterOrders(dhcp.options.other) :
           wire = Dhcp_serialise(dhcp, order)

\* C1: parsing the serialisation of a well-formed packet succeeds and gives
\* a packet equal to it in every field and in its option map, in whatever
\* order the options were written.
C1_HeaderRoundTrip ==
    (ParsedIntact /\ WellFormed(dhcp)) => (res.tag = "Ok" /\ res.val = dhcp)

\* A packet with hlen 16, full sname and file slots and two options, one of
\* them with a payload of 255 bytes, came back.
C1_Witness ==
    /\ ParsedIntact
    /\ WellFormed(dhcp)
    /\ dhcp.hlen = 16 /\ Len(dhcp.sname) = 64 /\ Len(dhcp.file) = 128
    /\ Cardinality(DOMAIN dhcp.options.other) = 2
    /\ \E c \in DOMAIN dhcp.options.other : Len(dhcp.options.other[c]) = 255
    /\ res.tag = "Ok"

\* C3: parse fails with InvalidPacket exactly when the input has at least
\* 44 bytes and its hlen byte (offset 2) is greater than 16, whatever the
\* bytes after the chaddr slot are and however many there are.
C3_InvalidPacketIff ==
    phase = "parsed" =>
        ((res.tag = "Err" /\ res.val = InvalidPacket)
            <=> (Len(wire) >= 44 /\ wire[3] > 16))

\* An input of just 44 bytes with hlen 17 was rejected as invalid.
C3_Witness ==
    /\ phase = "parsed"
    /\ Len(wire) = 44
    /\ wire[3] = 17
    /\ res.tag = "Err" /\ res.val = InvalidPacket

\* C4 as stated: parse of an input shorter than 240 bytes fails with
\* UnexpectedEndOfInput.
C4_ShortInputAsStated ==
    (phase = "parsed" /\ Len(wire) < 240) =>
        (res.tag = "Err" /\ res.val = UnexpectedEndOfInput)

\* C4: parse of an input shorter than 240 bytes fails; with InvalidPacket
\* when at least 44 bytes are there and the hlen byte is greater than 16,
\* with UnexpectedEndOfInput otherwise.
C4_ShortInput ==
    (phase = "parsed" /\ Len(wire) < 240) =>
        /\ res.tag = "Err"
        /\ res.val = IF Len(wire) >= 44 /\ wire[3] > 16
                     THEN InvalidPacket
                     ELSE UnexpectedEndOfInput

\* An input one byte short of the end of the magic ran out.
C4_Witness ==
    /\ phase = "parsed"
    /\ Len(wire) = 239
    /\ wire[3] <= 16
    /\ res.tag = "Err" /\ res.val = UnexpectedEndOfInput

\* The bytes at offsets 236..239 are not the magic.
BadMagic == SubSeq(wire, 237, 240) # <<99, 130, 83, 99>>

\* C5 as stated: parse of an input of at least 240 bytes whose bytes
\* 236..239 are not 0x63 0x82 0x53 0x63 fails with WrongMagic, with no
\* option byte read.
C5_WrongMagicAsStated ==
    (phase = "parsed" /\ Len(wire) >= 240 /\ BadMagic) =>
        (res.tag = "Err" /\ res.val = WrongMagic /\ res.pos = 240)

\* C5: parse of an input of at least 240 bytes whose hlen byte is at most
\* 16 and whose bytes 236..239 are not 0x63 0x82 0x53 0x63 fails with
\* WrongMagic, and no byte of the option stream has been read.
C5_WrongMagic ==
    (phase = "parsed" /\ Len(wire) >= 240 /\ BadMagic /\ wire[3] <= 16) =>
        (res.tag = "Err" /\ res.val = WrongMagic /\ res.pos = 240)

\* The magic was damaged, and so is the option stream after it: it has lost
\* its end marker.
C5_Witness ==
    /\ phase = "parsed"
    /\ Len(wire) > 240
    /\ BadMagic
    /\ parse_options(Buffer_new(SubSeq(wire, 241, Len(wire)))).tag = "Err"
    /\ res.tag = "Err" /\ res.val = WrongMagic /\ res.pos = 240

\* The payload of the single-address option c is there and is not 4 bytes.
BadAddress(options, c) ==
    c \in DOMAIN options.other /\ Len(options.other[c]) # 4

\* The typed accessor of the single-address option c.
AddressAccessor(c) ==
    IF c = OPTION_SERVERID THEN "get_serverid" ELSE "get_address_request"

\* C7: a server-identifier (54) or address-request (50) payload that is not
\* 4 bytes long does not make parse fail: a well-formed packet that has one
\* parses to Ok with its option map as sent; on a parsed packet that has
\* one, the typed accessor and DhcpOptionType::Ip.decode return None, and
\* get_raw_option returns the raw payload of every option that is there.
C7_LenientAddressDecode ==
    /\ (/\ ParsedIntact
        /\ WellFormed(dhcp)
        /\ \E c \in {OPTION_ADDRESSREQUEST, OPTION_SERVERID} :
               BadAddress(dhcp.options, c))
           => (res.tag = "Ok" /\ res.val.options = dhcp.options)
    /\ (phase = "parsed" /\ res.tag = "Ok") =>
           \A c \in {OPTION_ADDRESSREQUEST, OPTION_SERVERID} :
               BadAddress(res.val.options, c) =>
                   /\ obs.op = AddressAccessor(c) => obs.val = None
                   /\ (obs.op = "decode_ip" /\ obs.arg = c) => obs.val = None
                   /\ (/\ obs.op = "get_raw_option"
                       /\ obs.arg \in DOMAIN res.val.options.other)
                          => obs.val = Some(res.val.options.other[obs.arg])

\* A packet with a 3-byte server identifier and a client id parsed, and
\* get_serverid returned None.
C7_Witness ==
    /\ ParsedIntact
    /\ res.tag = "Ok"
    /\ DOMAIN res.val.options.other = {OPTION_SERVERID, OPTION_CLIENTID}
    /\ res.val.options.other[OPTION_SERVERID] = <<1, 2, 3>>
    /\ obs.op = "get_serverid"
    /\ obs.val = None

\* C8: on a parsed packet, get_client_id returns the payload of option 61
\* whenever the key is there, an empty payload included, and chaddr exactly
\* when it is not; get_clientid returns the payload when the key is there
\* and None when it is not.
C8_ClientIdFallback ==
    (phase = "parsed" /\ res.tag = "Ok") =>
        LET other == res.val.options.other
        IN  /\ obs.op = "get_client_id" =>
                   obs.val = Some(IF OPTION_CLIENTID \in DOMAIN other
                                  THEN other[OPTION_CLIENTID]
                                  ELSE res.val.chaddr)
            /\ obs.op = "get_clientid" =>
                   obs.val = IF OPTION_CLIENTID \in DOMAIN other
                             THEN Some(other[OPTION_CLIENTID])
                             ELSE None

\* Option 61 is there with an empty payload, chaddr is not empty, and
\* get_client_id returned the empty payload.
C8_Witness ==
    /\ phase = "parsed"
    /\ res.tag = "Ok"
    /\ OPTION_CLIENTID \in DOMAIN res.val.options.other
    /\ res.val.options.other[OPTION_CLIENTID] = <<>>
    /\ res.val.chaddr # <<>>
    /\ obs.op = "get_client_id"
    /\ obs.val = Some(<<>>)

\* slot has l bytes: the content, cut to l bytes, then zeros.
FixedField(slot, content, l) ==
    /\ Len(slot) = l
    /\ \A i \in 1..l : slot[i] = IF i <= Len(content) THEN content[i] ELSE 0

\* Where the entry of the k-th key of order o starts in an option stream
\* that holds the entries of the map in that order.
RECURSIVE EntryStart(_, _, _)
EntryStart(other, o, k) ==
    IF k = 1 THEN 1
    ELSE EntryStart(other, o, k - 1) + 2 + Len(other[o[k - 1]])

\* tail holds one {code, length byte, payload} entry per key of the map,
\* in some order of the keys, and then a single end marker.
OneEntryPerKey(tail, other) ==
    \E o \in IterOrders(other) :
        LET n == Len(o)
            end == IF n = 0 THEN 1
                   ELSE EntryStart(other, o, n) + 2 + Len(other[o[n]])
        IN  /\ Len(tail) = end
            /\ tail[end] = 255
            /\ \A k \in 1..n :
                   LET at == EntryStart(other, o, k)
                   IN  /\ tail[at] = o[k]
                       /\ tail[at + 1] \in 0..255
                       /\ SubSeq(tail, at + 2, at + 1 + Len(other[o[k]]))
                              = other[o[k]]

\* C12: serialise writes op, htype, hlen, hops, xid, secs, flags, ciaddr,
\* yiaddr, siaddr and giaddr in that order at their widths, big-endian, then
\* exactly 16, 64 and 128 bytes for chaddr, sname and file (the content, then
\* zeros), so that 63 82 53 63 is at offsets 236..239; then one {code,
\* length, payload} entry per key of the option map and a single 0xFF.
C12_SerialisedLayout ==
    phase = "sent" =>
        /\ Len(wire) >= 241
        /\ wire[1] = dhcp.op /\ wire[2] = dhcp.htype
        /\ wire[3] = dhcp.hlen /\ wire[4] = dhcp.hops
        /\ wire[5] * 256 + wire[6] = dhcp.xid[1]
        /\ wire[7] * 256 + wire[8] = dhcp.xid[2]
        /\ wire[9] * 256 + wire[10] = dhcp.secs
        /\ wire[11] * 256 + wire[12] = dhcp.flags
        /\ SubSeq(wire, 13, 16) = dhcp.ciaddr
        /\ SubSeq(wire, 17, 20) = dhcp.yiaddr
        /\ SubSeq(wire, 21, 24) = dhcp.siaddr
        /\ SubSeq(wire, 25, 28) = dhcp.giaddr
        /\ FixedField(SubSeq(wire, 29, 44), dhcp.chaddr, 16)
        /\ FixedField(SubSeq(wire, 45, 108), dhcp.sname, 64)
        /\ FixedField(SubSeq(wire, 109, 236), dhcp.file, 128)
        /\ SubSeq(wire, 237, 240) = <<99, 130, 83, 99>>
        /\ OneEntryPerKey(SubSeq(wire, 241, Len(wire)), dhcp.options.other)

\* A packet with a 6-byte chaddr, short sname and file and two options was
\* serialised.
C12_Witness ==
    /\ phase = "sent"
    /\ Len(dhcp.chaddr) = 6 /\ dhcp.sname = <<97, 98>> /\ dhcp.secs = 1286
    /\ Cardinality(DOMAIN dhcp.options.other) = 2
    /\ wire[Len(wire)] = 255

\* out is the bytes of slot before its first zero byte, all of slot when it
\* has none.
BeforeFirstZero(out, slot) ==
    /\ Len(out) <= Len(slot)
    /\ out = SubSeq(slot, 1, Len(out))
    /\ \A i \in 1..Len(out) : out[i] # 0
    /\ Len(out) < Len(slot) => slot[Len(out) + 1] = 0

\* C14: in every packet parse returns, chaddr has exactly hlen bytes, hlen
\* is at most 16 and chaddr is the first hlen bytes of the 16-byte slot;
\* sname is the bytes of the 64-byte slot before its first zero byte (the
\* whole slot if there is none), file likewise for the 128-byte slot, and
\* neither contains a zero byte.
C14_ParsedPacketShape ==
    (phase = "parsed" /\ res.tag = "Ok") =>
        /\ res.val.hlen <= 16
        /\ Len(res.val.chaddr) = res.val.hlen
        /\ res.val.chaddr = SubSeq(wire, 29, 28 + res.val.hlen)
        /\ BeforeFirstZero(res.val.sname, SubSeq(wire, 45, 108))
        /\ BeforeFirstZero(res.val.file, SubSeq(wire, 109, 236))

\* The sname slot held a, zero, b and the packet has sname a; its chaddr is
\* the first 6 bytes of the slot.
C14_Witness ==
    /\ phase = "parsed"
    /\ res.tag = "Ok"
    /\ SubSeq(wire, 45, 47) = <<97, 0, 98>>
    /\ res.val.sname = <<97>>
    /\ res.val.hlen = 6
    /\ Len(res.val.chaddr) = 6

\* C19: for every entry of the option map, the length byte that serialise
\* writes after the code equals the number of payload bytes written after
\* it, for every payload the container holds.
C19_LengthByteIsTotal ==
    phase = "sent" =>
        LET tail == SubSeq(wire, 241, Len(wire))
            other == dhcp.options.other
        IN  \E o \in IterOrders(other) :
                \A k \in 1..Len(o) :
                    LET at == EntryStart(other, o, k)
                    IN  /\ tail[at] = o[k]
                        /\ tail[at + 1] = Len(other[o[k]])
                        /\ SubSeq(tail, at + 2, at + 1 + Len(other[o[k]]))
                               = other[o[k]]

\* The length byte is the total for the payloads of at most 255 bytes, and
\* the total modulo 256 for every payload.
LengthByteWraps ==
    phase = "sent" =>
        LET tail == SubSeq(wire, 241, Len(wire))
            other == dhcp.options.other
        IN  \E o \in IterOrders(other) :
                \A k \in 1..Len(o) :
                    LET at == EntryStart(other, o, k)
                    IN  /\ tail[at] = o[k]
                        /\ tail[at + 1] = Len(other[o[k]]) % 256
                        /\ Len(other[o[k]]) <= 255
                               => tail[at + 1] = Len(other[o[k]])

\* C23: for every byte slice that parse accepts, serialising the packet it
\* returned and parsing the result returns Ok of an equal packet, also when
\* the slice had repeated TLVs of one code, whose payloads were concatenated.
C23_ReserialisePreserves ==
    (phase = "parsed" /\ res.tag = "Ok" /\ again.op = "serialise")
        => (again.res.tag = "Ok" /\ again.res.val = res.val)

\* The packet is preserved when every payload parse put together has at most
\* 255 bytes.
ReserialiseShortPayloads ==
    (/\ phase = "parsed" /\ res.tag = "Ok" /\ again.op = "serialise"
     /\ \A c \in DOMAIN res.val.options.other :
            Len(res.val.options.other[c]) <= 255)
        => (again.res.tag = "Ok" /\ again.res.val = res.val)

ReserialiseShortPayloadsReached ==
    /\ phase = "parsed" /\ res.tag = "Ok" /\ again.op = "serialise"
    /\ res.val.options.other = (53 :> <<1, 2>>) @@ (54 :> <<192, 0, 2, 1>>)
    /\ again.res.tag = "Ok" /\ again.res.val = res.val

\* C24: bytes after the first end marker are never read: for every byte
\* slice b that parse accepts and every byte sequence t, parse(b ++ t)
\* returns the same packet as parse(b).
C24_TailIgnored ==
    (phase = "parsed" /\ res.tag = "Ok" /\ again.op = "tail")
        => again.res = res

\* A packet with two options was parsed again with a whole option and an end
\* marker after its end marker.
C24_Witness ==
    /\ phase = "parsed" /\ res.tag = "Ok" /\ again.op = "tail"
    /\ Cardinality(DOMAIN res.val.options.other) = 2
    /\ Len(wire) = res.pos
    /\ again.res.tag = "Ok"

(***************************************************************************)
(* Properties of the typed values (under SpecVal)                          *)
(***************************************************************************)
\* C9: for a typed value v of one of the variants String, Ip, IpList, I32,
\* U8, U16, U32, HwAddr, Routes and Unknown, decoding the bytes as_bytes
\* gives for v, with the type tag of v's variant, returns v.
C9_TypedRoundTrip ==
    (/\ vphase = "decoded"
     /\ typed.variant \in {"String", "Ip", "IpList", "I32", "U8", "U16", "U32",
                           "HwAddr", "Routes", "Unknown"})
        => dec = Some(typed)

\* A list of two routes came back from its bytes.
C9_Witness ==
    /\ vphase = "decoded"
    /\ typed.variant = "Routes"
    /\ Len(typed.x) = 2
    /\ Len(vbytes) = 18
    /\ dec = Some(typed)

\* The last n bytes of b, with zeros in front when b has fewer.
LastBytes(b, n) ==
    [i \in 1..n |-> IF Len(b) - n + i >= 1 THEN b[Len(b) - n + i] ELSE 0]

\* The big-endian value of the bytes of b at the width of an integer tag:
\* of its last 1, 2 or 4 bytes, a u32 as its two halves, an i32 in two's
\* complement.
Accumulated(t, b) ==
    IF t \in {"U8", "Bool"} THEN LastBytes(b, 1)[1]
    ELSE IF t \in {"U16", "Seconds16"}
    THEN LastBytes(b, 2)[1] * 256 + LastBytes(b, 2)[2]
    ELSE LET w == LastBytes(b, 4)
         IN  IF t = "I32"
             THEN (IF w[1] >= 128 THEN w[1] - 256 ELSE w[1]) * 16777216
                      + w[2] * 65536 + w[3] * 256 + w[4]
             ELSE <<w[1] * 256 + w[2], w[3] * 256 + w[4]>>

\* The variant an integer tag decodes to.
IntVariant(t) ==
    CASE t = "Bool" -> "U8"
      [] t = "Seconds16" -> "U16"
      [] t = "Seconds32" -> "U32"
      [] OTHER -> t

\* C15 as stated: decode with an integer tag (I32, U8, U16, U32, Bool,
\* Seconds16, Seconds32) returns a value for a payload of any length, the
\* big-endian accumulation of the bytes that are there.
C15_PermissiveAsStated ==
    (vphase = "decoded_bytes" /\ tag \in IntTags) =>
        dec = Some(TypedValue(IntVariant(tag), Accumulated(tag, vbytes)))

\* C15: decode with tag I32, U16, U32, Seconds16 or Seconds32 returns a
\* value for a payload of any length, the big-endian accumulation of the
\* bytes that are there at the width of the type; with tag U8 or Bool it
\* returns the byte of a payload of exactly one byte and no value for a
\* payload of any other length.
C15_PermissiveButU8 ==
    (vphase = "decoded_bytes" /\ tag \in IntTags) =>
        IF tag \in {"U8", "Bool"} /\ Len(vbytes) # 1
        THEN dec = None
        ELSE dec = Some(TypedValue(IntVariant(tag), Accumulated(tag, vbytes)))

\* A 16-bit duration was decoded from three bytes.
C15_Witness ==
    /\ vphase = "decoded_bytes"
    /\ tag = "Seconds16"
    /\ vbytes = <<1, 128, 255>>
    /\ dec = Some(TypedValue("U16", 33023))

\* C16: decode with tag IpList returns the list of len(b)/4 addresses, the
\* i-th made of bytes 4i..4i+3, when len(b) is a multiple of 4 (the empty
\* list for no bytes) and no value otherwise; decode with tag Ip returns a
\* value, the address made of the four bytes, exactly when len(b) = 4.
C16_AddressListDecode ==
    /\ (vphase = "decoded_bytes" /\ tag = "IpList") =>
           IF Len(vbytes) % 4 = 0
           THEN dec = Some(TypedValue("IpList",
                        [i \in 1..(Len(vbytes) \div 4) |->
                            SubSeq(vbytes, 4 * i - 3, 4 * i)]))
           ELSE dec = None
    /\ (vphase = "decoded_bytes" /\ tag = "Ip") =>
           IF Len(vbytes) = 4
           THEN dec = Some(TypedValue("Ip", vbytes))
           ELSE dec = None

\* Two addresses were decoded from eight bytes.
C16_Witness ==
    /\ vphase = "decoded_bytes"
    /\ tag = "IpList"
    /\ vbytes = <<192, 0, 2, 0, 255, 255, 255, 254>>
    /\ dec = Some(TypedValue("IpList", <<<<192, 0, 2, 0>>, <<255, 255, 255, 254>>>>))

\* The i-th 9-byte group of b: its prefix length, prefix address, next hop.
GroupLen(b, i) == b[9 * i - 8]
GroupAddr(b, i) == SubSeq(b, 9 * i - 7, 9 * i - 4)
GroupHop(b, i) == SubSeq(b, 9 * i - 3, 9 * i)

\* The prefix is one Ipv4Subnet::new accepts.
ValidPrefix(addr, prefixlen) == Ipv4Subnet_new(addr, prefixlen) # None

\* C17: decode with tag Routes reads 9-byte groups (prefix length, 4 prefix
\* octets, 4 next-hop octets) until the input is used up: it returns the
\* empty list for no bytes, one route per group in order when every group
\* is complete and has a valid prefix, and no value when the last group has
\* fewer than 9 bytes.
C17_RouteListDecode ==
    (vphase = "decoded_bytes" /\ tag = "Routes") =>
        LET n == Len(vbytes) \div 9
        IN  /\ Len(vbytes) % 9 # 0 => dec = None
            /\ (/\ Len(vbytes) % 9 = 0
                /\ \A i \in 1..n :
                       ValidPrefix(GroupAddr(vbytes, i), GroupLen(vbytes, i)))
                   => dec = Some(TypedValue("Routes",
                          [i \in 1..n |->
                              [prefix |-> [addr |-> GroupAddr(vbytes, i),
                                           prefixlen |-> GroupLen(vbytes, i)],
                               nexthop |-> GroupHop(vbytes, i)]]))

\* Two routes were decoded from eighteen bytes.
C17_Witness ==
    /\ vphase = "decoded_bytes"
    /\ tag = "Routes"
    /\ vbytes = <<24, 192, 0, 2, 0, 192, 0, 2, 254, 0, 0, 0, 0, 0, 10, 0, 0, 1>>
    /\ dec # None
    /\ Len(dec[1].x) = 2
    /\ dec[1].x[2].nexthop = <<10, 0, 0, 1>>

\* The byte that as_bytes is said to write at position k of the segment of
\* name d: the length of the first label, then the bytes of d with every dot
\* replaced by the length of the label after it, then one zero.
NameByte(d, k) ==
    IF k = 1 THEN (NextDot(d, 0) - 1) % 256
    ELSE IF k = Len(d) + 2 THEN 0
    ELSE IF d[k - 1] = DOT THEN (NextDot(d, k - 1) - k) % 256
    ELSE d[k - 1]

\* The number of bytes written before the segment of name i of list l.
RECURSIVE NameStart(_, _)
NameStart(l, i) ==
    IF i = 1 THEN 0 ELSE NameStart(l, i - 1) + Len(l[i - 1]) + 2

LabelLayout(l, b) ==
    /\ Len(b) = NameStart(l, Len(l) + 1)
    /\ \A i \in 1..Len(l) : \A k \in 1..(Len(l[i]) + 2) :
           b[NameStart(l, i) + k] = NameByte(l[i], k)

\* A name that is one or more labels of 1 to 63 bytes each.
ProperName(d) ==
    \A i \in 1..Len(split(d)) :
        Len(split(d)[i]) >= 1 /\ Len(split(d)[i]) <= 63

\* C18: the bytes of a DomainList value are, name by name, each label as one
\* length byte and the label's bytes, and one zero byte after every name, and
\* decoding those bytes with the DomainList tag yields the same list of names.
C18_DomainListRoundTrip ==
    (vphase = "decoded" /\ typed.variant = "DomainList")
        => /\ LabelLayout(typed.x, vbytes)
           /\ dec = Some(typed)

\* The layout alone holds for every list of names, and the round trip holds
\* for the lists of proper names; a name with an empty label is written with
\* a zero length byte, which reads back as the end of a name.
DomainListLayout ==
    (vphase \in {"encoded", "decoded"} /\ typed.variant = "DomainList")
        => LabelLayout(typed.x, vbytes)

ProperNamesRoundTrip ==
    (/\ vphase = "decoded"
     /\ typed.variant = "DomainList"
     /\ \A i \in 1..Len(typed.x) : ProperName(typed.x[i]))
        => dec = Some(typed)

ProperNamesRoundTripReached ==
    /\ vphase = "decoded"
    /\ typed.variant = "DomainList"
    /\ typed.x = <<<<97, DOT, 98, 99, DOT, 97>>, <<97>>>>
    /\ dec = Some(typed)

(***************************************************************************)
(* Properties of the option container (under SpecCont)                     *)
(***************************************************************************)
\* C10: the reserved codes 0 (pad) and 255 (end) are never keys of the
\* option map of a container, whether parse_options returned it or it went
\* through a sequence of set_raw_option, set_option, mutate_option,
\* mutate_option_value, maybe_set_option and remove_option calls.
C10_ReservedCodesNeverKeys ==
    /\ OPTION_PAD \notin DOMAIN opts.other
    /\ OPTION_END \notin DOMAIN opts.other

\* C11: for every option code c the caller has operated on, get_raw_option(c)
\* returns exactly the bytes the most recent setter call for c was given to
\* write, and no value when the most recent operation on c was a remove;
\* also on a container parse_options built, c by concatenation included.
C11_SettersReplace ==
    \A c \in ContCodes :
        /\ last[c].op = "set" => get_raw_option(opts, c) = Some(last[c].bytes)
        /\ last[c].op = "remove" => get_raw_option(opts, c) = None

\* The container came from parse_options (the server identifier no caller
\* here sets is in it) with code 53 built from two TLVs, and code 53 was set
\* afterwards.
C11_Witness ==
    /\ OPTION_SERVERID \in DOMAIN opts.other
    /\ last[OPTION_MSGTYPE].op = "set"
    /\ last[OPTION_MSGTYPE].bytes = <<5>>
    /\ opts.other[OPTION_MSGTYPE] = <<5>>

\* C20: maybe_set_option(code, None) returns a container equal to the one it
\* was given, also when code is already present, and maybe_set_option(code,
\* Some(v)) returns the same container as set_option(code, v).
C20_MaybeSetOption ==
    call.op = "maybe_set_option" =>
        /\ call.value = None => opts = call.self
        /\ call.value # None
               => opts = set_option(call.self, call.option, call.value[1])

\* maybe_set_option was called with no value for a code the container held
\* with some bytes, and returned the container with those bytes.
C20_Witness ==
    /\ call.op = "maybe_set_option"
    /\ call.value = None
    /\ call.option \in DOMAIN call.self.other
    /\ call.self.other[call.option] # <<>>
    /\ opts = call.self

Setters ==
    {"set_raw_option", "set_option", "mutate_option", "mutate_option_value",
     "remove_option"}

Getters == {"get_raw_option", "get_serverid", "get_clientid", "get_address_request"}

\* C25: set_raw_option, set_option, mutate_option, mutate_option_value and
\* remove_option applied to code c leave the payload, or the absence, of
\* every other code unchanged, and the getters leave the whole container
\* unchanged.
C25_Frame ==
    /\ call.op \in Setters =>
           \A d \in (DOMAIN opts.other \cup DOMAIN call.self.other \cup ContCodes)
                        \ {call.option} :
               get_raw_option(opts, d) = get_raw_option(call.self, d)
    /\ call.op \in Getters => opts = call.self

\* remove_option was called for one code of a container that held two other
\* codes, and both are still there with their bytes.
C25_Witness ==
    /\ call.op = "remove_option"
    /\ call.option \in DOMAIN call.self.other
    /\ Cardinality(DOMAIN call.self.other) = 3
    /\ Cardinality(DOMAIN opts.other) = 2
    /\ \A d \in DOMAIN opts.other : opts.other[d] = call.self.other[d]

(***************************************************************************)
(* Properties of the option registry (under SpecReg)                       *)
(***************************************************************************)
ListedOptions == {OPT_INFO[i][2] : i \in 1..Len(OPT_INFO)}

\* C21: no two entries of OPT_INFO have the same name and no two the same
\* code, so name_to_option(o.to_string()) = o for every listed option o and
\* name_to_option(n).to_string() = n for every listed name n; for a code
\* that is not listed get_type returns no mapping and to_string "#<code>".
C21_RegistryLookups ==
    /\ \A i, j \in 1..Len(OPT_INFO) :
           i # j => OPT_INFO[i][1] # OPT_INFO[j][1] /\ OPT_INFO[i][2] # OPT_INFO[j][2]
    /\ (lookup.op = "name_to_option(to_string)"
            /\ lookup.forOption[1] \in ListedOptions)
           => lookup.option = lookup.forOption
    /\ (lookup.op = "to_string(name_to_option)" /\ lookup.forName \in ListedNames)
           => lookup.name = lookup.forName
    /\ (lookup.op = "get_type" /\ lookup.forOption[1] \notin ListedOptions)
           => lookup.ty = None
    /\ (lookup.op = "to_string" /\ lookup.forOption[1] \notin ListedOptions)
           => lookup.name = "#" \o ToString(lookup.forOption[1])

\* The name of the last listed option, wpad-url for code 252, was looked up
\* and led back to the option.
C21_Witness ==
    /\ lookup.op = "name_to_option(to_string)"
    /\ lookup.forOption = Some(252)
    /\ lookup.option = Some(252)

(***************************************************************************)
(* Properties of the loop of parse_options (under SpecLoop)                *)
(***************************************************************************)
\* Every pass of the loop consumes at least one byte of the buffer or leaves
\* the loop.
PassConsumesOrLeaves ==
    run.at = "loop" /\ run' # run
        => run'.buf.pos > run.buf.pos \/ run'.at = "returned"

\* What the loop ends with: Ok after an end marker, and otherwise
\* UnexpectedEndOfInput; either way what parse_options returns for the input.
EndsOkOrShort ==
    run.at = "returned"
        => /\ run.res = parse_options(Buffer_new(run.data))
           /\ \/ run.res.tag = "Ok" /\ run.data[run.buf.pos] = OPTION_END
              \/ run.res.tag = "Err" /\ run.res.val = UnexpectedEndOfInput

\* C22 as stated: parse_options terminates on every finite input, every
\* pass of the loop consuming at least one byte or leaving the loop, with Ok
\* at an end marker or UnexpectedEndOfInput, after at most len(input) passes.
C22_TerminatesAsStated ==
    /\ (run.at = "loop") ~> (run.at = "returned")
    /\ [][PassConsumesOrLeaves]_vars
    /\ [](EndsOkOrShort /\ run.passes <= Len(run.data))

\* C22: the same, after at most len(input) + 1 passes: the pass that finds
\* the buffer empty at an option-code position consumes nothing and returns
\* UnexpectedEndOfInput.  When the loop ends at an end marker or inside a
\* TLV, at most len(input) passes were made.
C22_Terminates ==
    /\ (run.at = "loop") ~> (run.at = "returned")
    /\ [][PassConsumesOrLeaves]_vars
    /\ [](/\ EndsOkOrShort
          /\ run.passes <= Len(run.data) + 1
          /\ (run.at = "returned" /\ run.passes > Len(run.data))
                 => (run.res.tag = "Err" /\ run.buf.pos = Len(run.data)))

\* parse_options returned UnexpectedEndOfInput for an input of pad bytes
\* only, after one pass more than the input has bytes.
C22_Witness ==
    /\ run.at = "returned"
    /\ run.data = <<0, 0>>
    /\ run.passes = Len(run.data) + 1
    /\ run.res.tag = "Err"

(***************************************************************************)
(* Properties of parse_options (under SpecOpt)                             *)
(***************************************************************************)
\* The option stream s read by position, from position i to the end marker:
\* whether an option with code x occurs, and the payloads of the options
\* with code x, one after the other in the order they occur.
RECURSIVE Occurs(_, _, _)
Occurs(s, i, x) ==
    IF i > Len(s) \/ s[i] = 255 THEN FALSE
    ELSE IF s[i] = 0 THEN Occurs(s, i + 1, x)
    ELSE s[i] = x \/ Occurs(s, i + 2 + s[i + 1], x)

RECURSIVE Payloads(_, _, _)
Payloads(s, i, x) ==
    IF i > Len(s) \/ s[i] = 255 THEN <<>>
    ELSE IF s[i] = 0 THEN Payloads(s, i + 1, x)
    ELSE (IF s[i] = x THEN SubSeq(s, i + 2, i + 1 + s[i + 1]) ELSE <<>>)
             \o Payloads(s, i + 2 + s[i + 1], x)

\* How the option stream s is framed from position i on: "complete" when an
\* end marker closes it, or the way it is cut short.
RECURSIVE Framing(_, _)
Framing(s, i) ==
    IF i > Len(s) THEN "no_end"
    ELSE IF s[i] = 0 THEN Framing(s, i + 1)
    ELSE IF s[i] = 255 THEN "complete"
    ELSE IF i + 1 > Len(s) THEN "no_length"
    ELSE IF i + 1 + s[i + 1] > Len(s) THEN "short_payload"
    ELSE Framing(s, i + 2 + s[i + 1])

\* C2: when parse_options succeeds, the map has one entry for every option
\* code that occurs before the end marker and for no other code, and the
\* payload of the entry is the concatenation, in order of arrival, of the
\* payloads of all occurrences of the code: no earlier payload is replaced.
C2_DuplicatesConcatenate ==
    ores.tag = "Ok" =>
        \A x \in (StreamBytes \cup DOMAIN ores.val.other) \ {0, 255} :
            /\ x \in DOMAIN ores.val.other <=> Occurs(stream, 1, x)
            /\ x \in DOMAIN ores.val.other =>
                   ores.val.other[x] = Payloads(stream, 1, x)

\* Code 1 occurs twice, with payloads <<1>> and <<2>>.
C2_Witness ==
    /\ stream = <<1, 1, 1, 1, 1, 2, 255>>
    /\ ores.tag = "Ok"
    /\ ores.val.other[1] = <<1, 2>>

\* The option stream s from position i on without its padding: the zero
\* bytes that stand where an option code is expected, before the end marker.
RECURSIVE Unpadded(_, _)
Unpadded(s, i) ==
    IF i > Len(s) THEN <<>>
    ELSE IF s[i] = 0 THEN Unpadded(s, i + 1)
    ELSE IF s[i] = 255 \/ i + 1 > Len(s) THEN SubSeq(s, i, Len(s))
    ELSE IF i + 1 + s[i + 1] > Len(s) THEN SubSeq(s, i, Len(s))
    ELSE SubSeq(s, i, i + 1 + s[i + 1]) \o Unpadded(s, i + 2 + s[i + 1])

\* C13: a zero byte read where an option code is expected is skipped, with
\* no length byte read and no map entry made or changed: parse_options gives
\* the same result (the same map, or the same error) on a stream as on the
\* stream without its padding, wherever the zero bytes stand.
C13_PaddingIgnored ==
    ores.tag # "None" =>
        LET plain == parse_options(Buffer_new(Unpadded(stream, 1)))
        IN  ores.tag = plain.tag /\ ores.val = plain.val

\* Padding before, between and after two options.
C13_Witness ==
    /\ stream = <<0, 1, 1, 2, 0, 2, 0, 255>>
    /\ Unpadded(stream, 1) = <<1, 1, 2, 2, 0, 255>>
    /\ ores.tag = "Ok"
    /\ ores.val.other = (1 :> <<2>>) @@ (2 :> <<>>)

\* C6: parse_options fails with UnexpectedEndOfInput when the input ends
\* before an end marker is read, when a code is not followed by a length
\* byte, and when fewer payload bytes remain than the length byte declares;
\* it fails with no other error, and succeeds in every other case.
C6_TruncationCases ==
    ores.tag # "None" =>
        IF Framing(stream, 1) = "complete"
        THEN ores.tag = "Ok"
        ELSE ores.tag = "Err" /\ ores.val = UnexpectedEndOfInput

\* A complete option is followed by one whose payload is cut short.
C6_Witness ==
    /\ stream = <<1, 1, 1, 2, 2, 1>>
    /\ Framing(stream, 1) = "short_payload"
    /\ ores.tag = "Err"
    /\ ores.val = UnexpectedEndOfInput

(***************************************************************************)
(* Properties of typed values kept in a container (under SpecTyped)        *)
(***************************************************************************)
\* What get_option::<T> returns for a stored value: a Vec<Ipv4Addr> is the
\* list of its addresses.
Item(value) ==
    IF value.ty = "Vec" THEN [i \in DOMAIN value.v |-> value.v[i].v] ELSE value.v

\* C26: after set_option(c, v) or mutate_option(c, v) with v of a type T in
\* u8, u16, u32, i32, Ipv4Addr, Vec<Ipv4Addr>, String, MessageType,
\* get_option::<T>(c) returns v; after mutate_option_value(c, val),
\* get_raw_option(c) is val.as_bytes().
C26_TypedSetGet ==
    kept.at = "read" =>
        IF kept.op \in TypedOps
        THEN kept.got[1] = Some(Item(kept.value[1]))
        ELSE kept.got[1] = Some(as_bytes(kept.value[1]))

\* The least i32 was written over an option the container held, and read
\* back.
C26_Witness ==
    /\ kept.at = "read"
    /\ kept.op = "mutate_option"
    /\ kept.value[1].ty = "i32"
    /\ kept.value[1].v = I32_MIN
    /\ kept.got[1] = Some(I32_MIN)
    /\ Len(kept.opts.other[kept.option]) = 4


(***************************************************************************)
(* Decode, then encode (under SpecVal)                                     *)
(***************************************************************************)
\* The tags whose value keeps every byte of the payload in its place.
StructureTags == {"Ip", "IpList", "Routes", "HwAddr", "Unknown"}

Width(ty) == CASE ty = "u16" -> 2 [] ty \in {"u32", "i32"} -> 4 [] ty = "u64" -> 8

\* The value of type ty whose big-endian bytes are the last Width(ty) bytes
\* of b, zeros in front of a shorter b: a u32 as its two halves, a u64 as
\* its four parts, an i32 in two's complement.
LastBytesValue(ty, b) ==
    LET w == LastBytes(b, Width(ty))
    IN  CASE ty = "u16" -> w[1] * 256 + w[2]
          [] ty = "u32" -> <<w[1] * 256 + w[2], w[3] * 256 + w[4]>>
          [] ty = "i32" -> (IF w[1] >= 128 THEN w[1] - 256 ELSE w[1]) * 16777216
                               + w[2] * 65536 + w[3] * 256 + w[4]
          [] ty = "u64" -> <<w[1] * 256 + w[2], w[3] * 256 + w[4],
                             w[5] * 256 + w[6], w[7] * 256 + w[8]>>

\* Some sum of the fold of type ty over b leaves the range of the type.
FoldOverflows(ty, b) ==
    CASE ty = "u16" -> FoldOverflows16(b, 1, 0)
      [] ty = "u32" -> FoldOverflows32(b, 1, <<0, 0>>)
      [] ty = "i32" -> FoldOverflowsI32(b, 1, <<0, 0>>)
      [] ty = "u64" -> FoldOverflows64(b, 1, <<0, 0, 0, 0>>)

\* C28: the u16, u32, i32 and u64 parsers return a value for a payload of
\* any length and no sum of the fold overflows: for a payload longer than
\* the type the value of its last bytes (two's complement for i32), the
\* leading bytes dropped; for a shorter one the zero-extended value.
C28_FoldModulo ==
    vphase = "parsed_int" =>
        /\ ~FoldOverflows(tag, vbytes)
        /\ dec = Some(LastBytesValue(tag, vbytes))

\* A u64 was parsed from ten bytes, the first two dropped; the bytes kept
\* are all 255.
C28_Witness ==
    /\ vphase = "parsed_int"
    /\ tag = "u64"
    /\ Len(vbytes) = 10
    /\ dec = Some(<<65535, 65535, 65535, 65535>>)

\* An i32 was parsed from more than four bytes to a negative value.
C28_NegativeReached ==
    /\ vphase = "parsed_int"
    /\ tag = "i32"
    /\ Len(vbytes) > 4
    /\ dec[1] < 0


(***************************************************************************)
(* Properties of the older codec (under SpecOld)                           *)
(***************************************************************************)
\* The packet received has a whole header and the magic, and an option
\* stream that an end marker closes.
OldFramed ==
    /\ old.at \in {"parsed", "asked"}
    /\ Len(old.pkt) >= 240
    /\ SubSeq(old.pkt, 237, 240) = <<99, 130, 83, 99>>
    /\ Framing(old.stream, 1) = "complete"

\* C29: for every packet the older parse returns, get_address_request
\* returns no value when option 50 is absent and otherwise the address of
\* the first four payload bytes, and never indexes past the end of the
\* payload, also when option 50 came with fewer than 4 bytes.
C29_AddressRequest ==
    old.at = "asked" =>
        LET p == Payloads(old.stream, 1, OPTION_ADDRESSREQUEST)
        IN  /\ ~old.got.panicked
            /\ IF ~Occurs(old.stream, 1, OPTION_ADDRESSREQUEST)
               THEN old.got.val = None
               ELSE /\ old.got.val # None
                    /\ Len(p) >= 4 => old.got.val = Some(SubSeq(p, 1, 4))

\* What holds of get_address_request: no value without option 50, the
\* first four bytes of a payload of at least four, and an index past the
\* end of every shorter payload.
AddressRequestByLength ==
    old.at = "asked" =>
        LET p == Payloads(old.stream, 1, OPTION_ADDRESSREQUEST)
        IN  IF ~Occurs(old.stream, 1, OPTION_ADDRESSREQUEST)
            THEN old.got = [panicked |-> FALSE, val |-> None]
            ELSE IF Len(p) >= 4
            THEN old.got = [panicked |-> FALSE, val |-> Some(SubSeq(p, 1, 4))]
            ELSE old.got.panicked

\* Option 50 came with two bytes after a message type, the packet parsed,
\* and get_address_request indexed past the end.
AddressRequestShortReached ==
    /\ old.at = "asked"
    /\ old.stream = <<53, 1, 1, 50, 2, 10, 0, 255>>
    /\ old.res.val.options.other[OPTION_ADDRESSREQUEST] = <<10, 0>>
    /\ old.got.panicked


EmptyMessageTypeRefused ==
    /\ OldFramed
    /\ old.stream = <<53, 0, 255>>
    /\ old.res.tag = "Err"
    /\ old.res.val = InvalidPacket

====
